---- MODULE Spec2Model ----
(***************************************************************************)
(* Pyramid Solitaire: the game-state engine (AbstractPyramidSolitaire,     *)
(* AbstractSinglePyramidSolitaireModel, BasicPyramidSolitaire, Card).      *)
(*                                                                         *)
(* Rows and columns are 0-based as in the source; TLA+ sequences are       *)
(* 1-based, so the card at (row, card) is pyramid[row + 1][card + 1] and   *)
(* draw slot d is draws[d + 1].                                            *)
(***************************************************************************)
EXTENDS Integers, Sequences, FiniteSets, TLC

VARIABLES
    gamestate,  \* GameState.NOT_STARTED or GameState.STARTED
    pyramid,    \* Array<Array<Card>>: the rows, a removed card is Null
    draws,      \* Array<Card>: the draw slots, an emptied slot is Null
    stock,      \* Array<Card>: the cards not yet dealt
    last,       \* the most recent call: operation, arguments, outcome
    pre,        \* the fields as the most recent call found them
    moves,      \* successful removals and discards since the last deal
    callerDeck, \* the array the caller gave startGame: as given, and now
    snapshot,   \* the array the caller last got from getDrawCards or getPyramid
    view        \* the visual view: its cards, counters, score and what it shows

vars == <<gamestate, pyramid, draws, stock, last, pre, moves, callerDeck,
          snapshot, view>>

----------------------------------------------------------------------------
(* Bounds of the exploration.                                              *)

\* The pyramids dealt have 1 .. MaxRows rows.
MaxRows == 2
\* At most MaxCalls removals and discards succeed in one game.
MaxCalls == 3

\* The draw cards asked of startGame: DrawCountInputs of them, or so many
\* that SpareInputs cards are left as stock.
DrawCountInputs == 0..2
SpareInputs == 0..1

----------------------------------------------------------------------------
(* Cards, suits and decks.                                                 *)

NOT_STARTED == "Not Started"
STARTED == "Started"

HEART == "H"
SPADE == "S"
CLUB == "C"
DIAMOND == "D"

\* A Card object: its two fields.
Card(suit, value) == [suit |-> suit, value |-> value]

\* null, in a pyramid slot, a draw slot or a deck entry.
Null == [suit |-> "null", value |-> 0]

getValue(card) == card.value

\* Card.equals: identity, or a Card with the same value and the same suit.
\* null is no instance of Card.
equals(this, obj) ==
    IF this = obj THEN TRUE
    ELSE IF obj = Null THEN FALSE
    ELSE this.value = obj.value /\ this.suit = obj.suit

\* Mutation of removalValue: an even value, twice seven.
removalValueTwiceSeven == 7 + 7

removalValue == 13

\* The values getDeck gives every suit: for (x = 1; x < 14; x++).
NumValues == 13

\* Mutation of getDeck: the loop stops one value early, for (x = 1; x < 13; x++).
getDeckWithoutKings ==
    LET suits == <<HEART, SPADE, CLUB, DIAMOND>>
    IN  [i \in 1..(Len(suits) * (NumValues - 1)) |->
            Card(suits[((i - 1) \div (NumValues - 1)) + 1],
                 ((i - 1) % (NumValues - 1)) + 1)]

\* getDeck: the four suits in the order pushed, values 1 .. 13 for each.
getDeck ==
    LET suits == <<HEART, SPADE, CLUB, DIAMOND>>
    IN  [i \in 1..(Len(suits) * NumValues) |->
            Card(suits[((i - 1) \div NumValues) + 1], ((i - 1) % NumValues) + 1)]

\* A deck in the order of getDeck, with the cards of front moved to the front.
WithFront(front) ==
    front \o SelectSeq(getDeck, LAMBDA c : \A i \in 1..Len(front) : front[i] /= c)

\* Decks a caller hands to startGame: getDeck as built, and three reorderings
\* of it whose first cards make kings, pairs summing to 13 and covered cards
\* meet in a small pyramid.
DeckKings == WithFront(<<Card(HEART, 13), Card(SPADE, 13), Card(HEART, 5),
                         Card(HEART, 8), Card(SPADE, 5)>>)
DeckPairs == WithFront(<<Card(HEART, 6), Card(SPADE, 13), Card(HEART, 7),
                         Card(SPADE, 7), Card(SPADE, 6)>>)
DeckCover == WithFront(<<Card(HEART, 13), Card(HEART, 6), Card(HEART, 7),
                         Card(HEART, 12), Card(SPADE, 1)>>)
ValidDecks == {getDeck, DeckKings, DeckPairs, DeckCover}

\* Decks that are not the 52 cards of getDeck: one card short, one card
\* twice, one entry null, and 52 different cards of which one, built as
\* new Card(Suit.HEART, 14), stands where the king of hearts would.
DeckShort == SubSeq(getDeck, 1, Len(getDeck) - 1)
DeckDuplicate == [getDeck EXCEPT ![2] = getDeck[1]]
DeckWithNull == [getDeck EXCEPT ![3] = Null]
DeckWithoutKing == [getDeck EXCEPT ![NumValues] = Card(HEART, NumValues + 1)]
InvalidDecks == {DeckShort, DeckDuplicate, DeckWithNull, DeckWithoutKing}

\* null handed to startGame in place of an array: a value that is no deck.
NullDeck == <<[suit |-> "null", value |-> -1]>>

InputDecks == ValidDecks \cup InvalidDecks

----------------------------------------------------------------------------
(* AbstractSinglePyramidSolitaireModel: validation and dealing.            *)

\* isValidDeck, by the first index at which its loop leaves: a null entry
\* makes deck[index].equals throw a TypeError as soon as a second index
\* exists; a card equal to another returns false; an only entry that is null
\* returns false; after the loop the length is compared with getDeck's.
isValidDeck(deck) ==
    LET n == Len(deck)
        leaves(i) ==
            IF deck[i] = Null
            THEN IF n >= 2 THEN "TypeError" ELSE "false"
            ELSE IF \E j \in 1..n : i /= j /\ equals(deck[i], deck[j])
                 THEN "false"
                 ELSE "continue"
        stops == {i \in 1..n : leaves(i) /= "continue"}
    IN  IF stops /= {}
        THEN leaves(CHOOSE i \in stops : \A k \in stops : i <= k)
        ELSE IF n = Len(getDeck) THEN "true" ELSE "false"

\* isValidDeck of each deck the callers use, evaluated once.
validity == [d \in InputDecks |-> isValidDeck(d)]

isEnoughCards(deckSize, numRows, numDraws) ==
    LET pyramidSize == (numRows * (numRows + 1)) \div 2
    IN  pyramidSize + numDraws <= deckSize

\* The outcomes of shuffle(deck): Fisher-Yates with Math.random can leave any
\* order of the same cards; the orders explored are those of ValidDecks.
shuffle(deck) ==
    {d \in ValidDecks : {d[i] : i \in 1..Len(d)} = {deck[i] : i \in 1..Len(deck)}}

\* dealCards after the optional shuffle: row by row, each row takes its
\* row + 1 cards from the front of the deck (push deck[0], shift).
\* Gives the rows dealt and what is left of the deck.
RECURSIVE dealRows(_, _, _, _)
dealRows(row, numRows, result, deck) ==
    IF row >= numRows THEN [pyramid |-> result, deck |-> deck]
    ELSE dealRows(row + 1, numRows,
                  Append(result, SubSeq(deck, 1, row + 1)),
                  SubSeq(deck, row + 2, Len(deck)))

\* Mutation of dealCards: the cards dealt into the pyramid stay in the deck.
dealCardsKeepsDeck(numRows, deck) ==
    [pyramid |-> dealRows(0, numRows, <<>>, deck).pyramid, deck |-> deck]

\* Mutation of dealCards: the rows are pushed onto the pyramid the engine
\* already has instead of onto a new array.
dealCardsOntoPyramid(numRows, deck) ==
    [pyramid |-> pyramid \o dealRows(0, numRows, <<>>, deck).pyramid,
     deck |-> dealRows(0, numRows, <<>>, deck).deck]

dealCards(numRows, deck) == dealRows(0, numRows, <<>>, deck)

----------------------------------------------------------------------------
(* AbstractPyramidSolitaire: the checks shared by the operations.          *)

\* The engine's fields, as one value.
State == [gamestate |-> gamestate, pyramid |-> pyramid,
          draws |-> draws, stock |-> stock]

\* What a call gives back: a value, or the kind of the Error it throws.
\* The source throws Error with a message; the kinds name the messages:
\*   NotStarted         "The game has not yet started."
\*   OutOfBounds        "... out of bounds ...", "Index does not exist in the draw pile."
\*   EmptySlot          "No card at the given index ...", "There is no card at this index."
\*   InvalidMove        "... value of 13 ...", "... do not sum/add up to ... 13 ..."
\*   Covered            "The card at the given index is covered ..."
\*   InvalidDeck        "The deck cannot be null."
\*   InsufficientCards  "Not enough cards in this deck for this deal."
\*   InvalidLayout      "Rows and draws cannot be zero.", "Number of rows cannot be
\*                      negative or zero.", "Number of draw cards cannot be negative."
\*   TypeError          no throw statement: a method called on null
OK == "OK"
Returned(value) == [kind |-> OK, value |-> value]
Thrown(kind) == [kind |-> kind]

checkStarted == IF gamestate = NOT_STARTED THEN "NotStarted" ELSE OK

isRowInBounds(row) == row < Len(pyramid) /\ row >= 0

isCardInBounds(row, card) ==
    isRowInBounds(row) /\ card < Len(pyramid[row + 1]) /\ card >= 0

getCardAt(row, card) ==
    IF checkStarted /= OK THEN Thrown(checkStarted)
    ELSE IF ~isRowInBounds(row) THEN Thrown("OutOfBounds")
    ELSE IF ~isCardInBounds(row, card) THEN Thrown("OutOfBounds")
    ELSE Returned(pyramid[row + 1][card + 1])

\* Mutation of isCovered: a card counts as covered only when both cards
\* beneath it are present.
isCoveredBothBeneath(row, card) ==
    IF row >= Len(pyramid) \/ row < 0 THEN Thrown("OutOfBounds")
    ELSE IF card >= Len(pyramid[row + 1]) \/ card < 0 THEN Thrown("OutOfBounds")
    ELSE IF row = Len(pyramid) - 1 THEN Returned(FALSE)
    ELSE Returned(getCardAt(row + 1, card).value /= Null /\
                  getCardAt(row + 1, card + 1).value /= Null)

isCovered(row, card) ==
    IF row >= Len(pyramid) \/ row < 0 THEN Thrown("OutOfBounds")
    ELSE IF card >= Len(pyramid[row + 1]) \/ card < 0 THEN Thrown("OutOfBounds")
    ELSE IF row = Len(pyramid) - 1 THEN Returned(FALSE)
    ELSE Returned(getCardAt(row + 1, card).value /= Null \/
                  getCardAt(row + 1, card + 1).value /= Null)

\* Mutation of removeChecks: the card is asked whether it is covered before
\* its value is compared with the removal value.
removeChecksCoverFirst(row, card) ==
    IF checkStarted /= OK THEN checkStarted
    ELSE IF ~isRowInBounds(row) THEN "OutOfBounds"
    ELSE IF ~isCardInBounds(row, card) THEN "OutOfBounds"
    ELSE IF getCardAt(row, card).value = Null THEN "EmptySlot"
    ELSE IF isCovered(row, card).kind /= OK THEN isCovered(row, card).kind
    ELSE IF isCovered(row, card).value THEN "Covered"
    ELSE IF getValue(getCardAt(row, card).value) /= removalValue THEN "InvalidMove"
    ELSE OK

\* The outcome of the checks of remove, in their order.
removeChecks(row, card) ==
    IF checkStarted /= OK THEN checkStarted
    ELSE IF ~isRowInBounds(row) THEN "OutOfBounds"
    ELSE IF ~isCardInBounds(row, card) THEN "OutOfBounds"
    ELSE IF getCardAt(row, card).value = Null THEN "EmptySlot"
    ELSE IF getValue(getCardAt(row, card).value) /= removalValue THEN "InvalidMove"
    ELSE IF isCovered(row, card).kind /= OK THEN isCovered(row, card).kind
    ELSE IF isCovered(row, card).value THEN "Covered"
    ELSE OK

\* Mutation of removeTwoChecks: the game is not asked whether it has started.
removeTwoChecksSkipsStarted(row1, card1, row2, card2) ==
    IF ~isRowInBounds(row1) \/ ~isRowInBounds(row2) THEN "OutOfBounds"
    ELSE IF ~isCardInBounds(row1, card1) \/ ~isCardInBounds(row2, card2)
         THEN "OutOfBounds"
    ELSE IF pyramid[row1 + 1][card1 + 1] = Null THEN "EmptySlot"
    ELSE IF pyramid[row2 + 1][card2 + 1] = Null THEN "EmptySlot"
    ELSE IF getValue(pyramid[row1 + 1][card1 + 1])
              + getValue(pyramid[row2 + 1][card2 + 1]) /= removalValue
         THEN "InvalidMove"
    ELSE OK

removeTwoChecks(row1, card1, row2, card2) ==
    IF checkStarted /= OK THEN checkStarted
    ELSE IF ~isRowInBounds(row1) \/ ~isRowInBounds(row2) THEN "OutOfBounds"
    ELSE IF ~isCardInBounds(row1, card1) \/ ~isCardInBounds(row2, card2)
         THEN "OutOfBounds"
    ELSE IF getCardAt(row1, card1).value = Null THEN "EmptySlot"
    ELSE IF getCardAt(row2, card2).value = Null THEN "EmptySlot"
    ELSE IF getValue(getCardAt(row1, card1).value)
              + getValue(getCardAt(row2, card2).value) /= removalValue
         THEN "InvalidMove"
    ELSE OK

\* Mutation of removeTwoOutcome: only the first card is asked whether it is
\* covered.
removeTwoOutcomeFirstCoverOnly(row1, card1, row2, card2) ==
    IF removeTwoChecks(row1, card1, row2, card2) /= OK
    THEN removeTwoChecks(row1, card1, row2, card2)
    ELSE IF isCovered(row1, card1).kind /= OK THEN isCovered(row1, card1).kind
    ELSE IF isCovered(row1, card1).value THEN "Covered"
    ELSE OK

\* Mutation of removeTwoOutcome: the second card is asked whether it is
\* covered as if the first card had already been taken out of the pyramid.
removeTwoOutcomeSecondAfterFirst(row1, card1, row2, card2) ==
    IF removeTwoChecks(row1, card1, row2, card2) /= OK
    THEN removeTwoChecks(row1, card1, row2, card2)
    ELSE IF isCovered(row1, card1).kind /= OK THEN isCovered(row1, card1).kind
    ELSE IF isCovered(row1, card1).value THEN "Covered"
    ELSE IF row2 = Len(pyramid) - 1 THEN OK
    ELSE IF \E card \in {card2, card2 + 1} :
                /\ <<row2 + 1, card>> /= <<row1, card1>>
                /\ getCardAt(row2 + 1, card).value /= Null
         THEN "Covered"
    ELSE OK

\* The outcome of removeTwo up to its first assignment: removeTwoChecks, then
\* isCovered(row1, card1) || isCovered(row2, card2).
removeTwoOutcome(row1, card1, row2, card2) ==
    IF removeTwoChecks(row1, card1, row2, card2) /= OK
    THEN removeTwoChecks(row1, card1, row2, card2)
    ELSE IF isCovered(row1, card1).kind /= OK THEN isCovered(row1, card1).kind
    ELSE IF isCovered(row1, card1).value THEN "Covered"
    ELSE IF isCovered(row2, card2).kind /= OK THEN isCovered(row2, card2).kind
    ELSE IF isCovered(row2, card2).value THEN "Covered"
    ELSE OK

\* Mutation of discardDrawChecks: an empty slot is not refused.
discardDrawChecksAllowsEmpty(drawIndex) ==
    IF checkStarted /= OK THEN checkStarted
    ELSE IF drawIndex < 0 \/ drawIndex >= Len(draws) THEN "OutOfBounds"
    ELSE OK

\* The outcome of the checks of discardDraw.
discardDrawChecks(drawIndex) ==
    IF checkStarted /= OK THEN checkStarted
    ELSE IF drawIndex < 0 \/ drawIndex >= Len(draws) THEN "OutOfBounds"
    ELSE IF draws[drawIndex + 1] = Null THEN "EmptySlot"
    ELSE OK

\* Mutation of removeUsingDrawChecks: the draw index is compared with the
\* bounds only after the pyramid slot has been found to hold a card.
removeUsingDrawChecksDrawBoundsLate(drawIndex, row, card) ==
    IF checkStarted /= OK THEN checkStarted
    ELSE IF ~isRowInBounds(row) THEN "OutOfBounds"
    ELSE IF ~isCardInBounds(row, card) THEN "OutOfBounds"
    ELSE IF getCardAt(row, card).value = Null THEN "EmptySlot"
    ELSE IF drawIndex >= Len(draws) \/ drawIndex < 0 THEN "OutOfBounds"
    ELSE IF draws[drawIndex + 1] = Null THEN "EmptySlot"
    ELSE IF getValue(getCardAt(row, card).value) + getValue(draws[drawIndex + 1])
              /= removalValue
         THEN "InvalidMove"
    ELSE IF isCovered(row, card).kind /= OK THEN isCovered(row, card).kind
    ELSE IF isCovered(row, card).value THEN "Covered"
    ELSE OK

\* Mutation of removeUsingDrawChecks: the pyramid card is never asked whether
\* it is covered.
removeUsingDrawChecksIgnoresCover(drawIndex, row, card) ==
    IF checkStarted /= OK THEN checkStarted
    ELSE IF ~isRowInBounds(row) THEN "OutOfBounds"
    ELSE IF ~isCardInBounds(row, card) THEN "OutOfBounds"
    ELSE IF drawIndex >= Len(draws) \/ drawIndex < 0 THEN "OutOfBounds"
    ELSE IF getCardAt(row, card).value = Null THEN "EmptySlot"
    ELSE IF draws[drawIndex + 1] = Null THEN "EmptySlot"
    ELSE IF getValue(getCardAt(row, card).value) + getValue(draws[drawIndex + 1])
              /= removalValue
         THEN "InvalidMove"
    ELSE OK

\* Mutation of removeUsingDrawChecks: an empty draw slot is not refused, its
\* value counting as 0.
removeUsingDrawChecksSkipsEmptyDraw(drawIndex, row, card) ==
    IF checkStarted /= OK THEN checkStarted
    ELSE IF ~isRowInBounds(row) THEN "OutOfBounds"
    ELSE IF ~isCardInBounds(row, card) THEN "OutOfBounds"
    ELSE IF drawIndex >= Len(draws) \/ drawIndex < 0 THEN "OutOfBounds"
    ELSE IF getCardAt(row, card).value = Null THEN "EmptySlot"
    ELSE IF getValue(getCardAt(row, card).value) + getValue(draws[drawIndex + 1])
              /= removalValue
         THEN "InvalidMove"
    ELSE IF isCovered(row, card).kind /= OK THEN isCovered(row, card).kind
    ELSE IF isCovered(row, card).value THEN "Covered"
    ELSE OK

\* The outcome of the checks of removeUsingDraw, up to its first assignment.
removeUsingDrawChecks(drawIndex, row, card) ==
    IF checkStarted /= OK THEN checkStarted
    ELSE IF ~isRowInBounds(row) THEN "OutOfBounds"
    ELSE IF ~isCardInBounds(row, card) THEN "OutOfBounds"
    ELSE IF drawIndex >= Len(draws) \/ drawIndex < 0 THEN "OutOfBounds"
    ELSE IF getCardAt(row, card).value = Null THEN "EmptySlot"
    ELSE IF draws[drawIndex + 1] = Null THEN "EmptySlot"
    ELSE IF getValue(getCardAt(row, card).value) + getValue(draws[drawIndex + 1])
              /= removalValue
         THEN "InvalidMove"
    ELSE IF isCovered(row, card).kind /= OK THEN isCovered(row, card).kind
    ELSE IF isCovered(row, card).value THEN "Covered"
    ELSE OK

\* The outcome of the checks of startGame, in their order.
startGameChecks(deck, numRows, numDraw) ==
    IF deck = NullDeck THEN "InvalidDeck"
    ELSE IF validity[deck] = "TypeError" THEN "TypeError"
    ELSE IF validity[deck] /= "true" THEN "InvalidDeck"
    ELSE IF ~isEnoughCards(Len(deck), numRows, numDraw) THEN "InsufficientCards"
    ELSE IF numRows = 0 /\ numDraw = 0 THEN "InvalidLayout"
    ELSE IF numRows <= 0 THEN "InvalidLayout"
    ELSE IF numDraw < 0 THEN "InvalidLayout"
    ELSE OK

----------------------------------------------------------------------------
(* The operations.  Every call records its outcome in last and the fields  *)
(* it found in pre.  A call that throws before its first assignment leaves *)
(* the fields as they are; last then keeps the operation and the kind of   *)
(* the Error.  A successful startGame replaces every field whatever it     *)
(* found: pre then keeps, of the fields it found, only gamestate, and      *)
(* holds for the others what a new engine has.                             *)

\* The fields of an engine on which startGame has not succeeded: the
\* constructor sets gamestate and leaves pyramid, draws and stock unset.
NewFields == [gamestate |-> NOT_STARTED, pyramid |-> <<>>,
              draws |-> <<>>, stock |-> <<>>]

\* Mutation of Throws: a call that throws takes the game back to NOT_STARTED.
ThrowsAndResets(op, kind) ==
    /\ last' = [op |-> op, args |-> <<>>, result |-> kind]
    /\ pre' = State
    /\ gamestate' = NOT_STARTED
    /\ UNCHANGED <<pyramid, draws, stock, moves>>

Throws(op, kind) ==
    /\ last' = [op |-> op, args |-> <<>>, result |-> kind]
    /\ pre' = State
    /\ UNCHANGED <<gamestate, pyramid, draws, stock, moves>>

Succeeds(op, args) ==
    /\ last' = [op |-> op, args |-> args, result |-> OK]
    /\ pre' = State

startGame(deck, doShuffle, numRows, numDraw) ==
    IF startGameChecks(deck, numRows, numDraw) /= OK
    THEN Throws("startGame", startGameChecks(deck, numRows, numDraw))
    ELSE \E deckCopy \in (IF doShuffle THEN shuffle(deck) ELSE {deck}) :
            LET dealt == dealCards(numRows, deckCopy)
            IN  /\ pyramid' = dealt.pyramid
                /\ draws' = SubSeq(dealt.deck, 1, numDraw)
                /\ stock' = SubSeq(dealt.deck, numDraw + 1, Len(dealt.deck))
                /\ gamestate' = STARTED
                /\ moves' = 0
                /\ last' = [op |-> "startGame",
                            args |-> <<deck, doShuffle, numRows, numDraw>>,
                            result |-> OK]
                /\ pre' = [NewFields EXCEPT !.gamestate = gamestate]

remove(row, card) ==
    IF removeChecks(row, card) /= OK
    THEN Throws("remove", removeChecks(row, card))
    ELSE /\ moves < MaxCalls
         /\ pyramid' = [pyramid EXCEPT ![row + 1][card + 1] = Null]
         /\ moves' = moves + 1
         /\ UNCHANGED <<gamestate, draws, stock>>
         /\ Succeeds("remove", <<row, card>>)

removeTwo(row1, card1, row2, card2) ==
    IF removeTwoOutcome(row1, card1, row2, card2) /= OK
    THEN Throws("removeTwo", removeTwoOutcome(row1, card1, row2, card2))
    ELSE /\ moves < MaxCalls
         /\ pyramid' = [[pyramid EXCEPT ![row1 + 1][card1 + 1] = Null]
                            EXCEPT ![row2 + 1][card2 + 1] = Null]
         /\ moves' = moves + 1
         /\ UNCHANGED <<gamestate, draws, stock>>
         /\ Succeeds("removeTwo", <<row1, card1, row2, card2>>)

\* The assignments of discardDraw: the slot takes stock[0], which is shifted
\* off the stock; with no stock the slot becomes null.
\* Mutation of drawsAfterDiscard: with an empty stock the slot is taken out
\* of the draw pile.
drawsAfterDiscardDropsSlot(drawIndex) ==
    IF Len(stock) > 0
    THEN [draws EXCEPT ![drawIndex + 1] = stock[1]]
    ELSE SubSeq(draws, 1, drawIndex) \o SubSeq(draws, drawIndex + 2, Len(draws))

\* Mutation of drawsAfterDiscard: the slot is emptied and never refilled.
drawsAfterDiscardNeverRefills(drawIndex) ==
    [draws EXCEPT ![drawIndex + 1] = Null]

drawsAfterDiscard(drawIndex) ==
    IF Len(stock) > 0
    THEN [draws EXCEPT ![drawIndex + 1] = stock[1]]
    ELSE [draws EXCEPT ![drawIndex + 1] = Null]

\* Mutation of stockAfterDiscard: a copy of the front card is put back under
\* the stock.
stockAfterDiscardPutsBack ==
    IF Len(stock) > 0 THEN Append(SubSeq(stock, 2, Len(stock)), stock[1]) ELSE stock

\* Mutation of stockAfterDiscard: the card taken off the stock is its last.
stockAfterDiscardDropsLast ==
    IF Len(stock) > 0 THEN SubSeq(stock, 1, Len(stock) - 1) ELSE stock

\* Mutation of stockAfterDiscard: the front card stays on the stock.
stockAfterDiscardKeepsFront == stock

stockAfterDiscard ==
    IF Len(stock) > 0 THEN SubSeq(stock, 2, Len(stock)) ELSE stock

discardDraw(drawIndex) ==
    IF discardDrawChecks(drawIndex) /= OK
    THEN Throws("discardDraw", discardDrawChecks(drawIndex))
    ELSE /\ moves < MaxCalls
         /\ draws' = drawsAfterDiscard(drawIndex)
         /\ stock' = stockAfterDiscard
         /\ moves' = moves + 1
         /\ UNCHANGED <<gamestate, pyramid>>
         /\ Succeeds("discardDraw", <<drawIndex>>)

\* removeUsingDraw nulls the pyramid card and then calls discardDraw, whose
\* checks read gamestate and draws only: were they to throw, the pyramid card
\* would stay removed and the call would end with that Error.
removeUsingDraw(drawIndex, row, card) ==
    IF removeUsingDrawChecks(drawIndex, row, card) /= OK
    THEN Throws("removeUsingDraw", removeUsingDrawChecks(drawIndex, row, card))
    ELSE /\ moves < MaxCalls
         /\ pyramid' = [pyramid EXCEPT ![row + 1][card + 1] = Null]
         /\ moves' = moves + 1
         /\ pre' = State
         /\ UNCHANGED gamestate
         /\ IF discardDrawChecks(drawIndex) /= OK
            THEN /\ UNCHANGED <<draws, stock>>
                 /\ last' = [op |-> "removeUsingDraw",
                             args |-> <<drawIndex, row, card>>,
                             result |-> discardDrawChecks(drawIndex)]
            ELSE /\ draws' = drawsAfterDiscard(drawIndex)
                 /\ stock' = stockAfterDiscard
                 /\ last' = [op |-> "removeUsingDraw",
                             args |-> <<drawIndex, row, card>>,
                             result |-> OK]

----------------------------------------------------------------------------
(* The queries.                                                            *)

getNumRows == IF gamestate = NOT_STARTED THEN -1 ELSE Len(pyramid)

\* Mutation of getNumDraw: only the draw slots that hold a card are counted.
getNumDrawCountsCards ==
    IF gamestate = NOT_STARTED THEN -1
    ELSE Len(SelectSeq(draws, LAMBDA c : c /= Null))

getNumDraw == IF gamestate = NOT_STARTED THEN -1 ELSE Len(draws)

\* Mutation of getRowWidth: only the cards still in the row are counted.
getRowWidthCountsCards(row) ==
    IF checkStarted /= OK THEN Thrown(checkStarted)
    ELSE IF ~isRowInBounds(row) THEN Thrown("OutOfBounds")
    ELSE Returned(Len(SelectSeq(pyramid[row + 1], LAMBDA c : c /= Null)))

getRowWidth(row) ==
    IF checkStarted /= OK THEN Thrown(checkStarted)
    ELSE IF ~isRowInBounds(row) THEN Thrown("OutOfBounds")
    ELSE Returned(Len(pyramid[row + 1]))

getDrawCards ==
    IF checkStarted /= OK THEN Thrown(checkStarted)
    ELSE Returned([i \in 1..Len(draws) |-> draws[i]])

\* Mutation of isGameWon: the test is inverted, true while a card is left in
\* the pyramid.
isGameWonInverted ==
    \E row \in 1..Len(pyramid) :
        \E card \in 1..Len(pyramid[row]) : pyramid[row][card] /= Null

\* Mutation of isGameWon: the value after the loops is false.
isGameWonNever == FALSE

\* isGameWon walks the pyramid with forEach.  The `return false` of lines
\* 466-468 ends one call of the callback, and forEach drops what a callback
\* returns; control always reaches `return true` on line 471.
isGameWon == TRUE

\* getUncovered: the two loops, from (row, card) on, in row-major order.
RECURSIVE getUncoveredFrom(_, _)
getUncoveredFrom(row, card) ==
    IF row >= Len(pyramid) THEN <<>>
    ELSE IF card >= Len(pyramid[row + 1]) THEN getUncoveredFrom(row + 1, 0)
    ELSE (IF getCardAt(row, card).value /= Null /\ ~isCovered(row, card).value
          THEN <<getCardAt(row, card).value>>
          ELSE <<>>) \o getUncoveredFrom(row, card + 1)

getUncovered == getUncoveredFrom(0, 0)

canBeRemoved(cards) ==
    \E index \in 1..Len(cards) : getValue(cards[index]) = removalValue

canAddToRemovalValue(cards) ==
    \E card1 \in 1..Len(cards), card2 \in 1..Len(cards) :
        card1 /= card2 /\
        getValue(cards[card1]) + getValue(cards[card2]) = removalValue

\* isGameOver.  The forEach over draws (lines 322-326) changes nothing and
\* returns nothing to isGameOver.
isGameOver ==
    IF checkStarted /= OK THEN Thrown(checkStarted)
    ELSE IF isGameWon THEN Returned(TRUE)
    ELSE IF canBeRemoved(getUncovered) THEN Returned(FALSE)
    ELSE IF canAddToRemovalValue(getUncovered) THEN Returned(FALSE)
    ELSE Returned(~(getNumDraw > 0 /\ Len(stock) > 0))

\* The sum getScore builds with its two forEach loops, from (row, card) on.
RECURSIVE scoreFrom(_, _)
scoreFrom(row, card) ==
    IF row >= Len(pyramid) THEN 0
    ELSE IF card >= Len(pyramid[row + 1]) THEN scoreFrom(row + 1, 0)
    ELSE (IF pyramid[row + 1][card + 1] /= Null
          THEN getValue(pyramid[row + 1][card + 1])
          ELSE 0) + scoreFrom(row, card + 1)

\* Mutation of getScore: the game is not asked whether it has started.
getScoreUnchecked ==
    IF isGameWon THEN Returned(0)
    ELSE Returned(scoreFrom(0, 0))

getScore ==
    IF checkStarted /= OK THEN Thrown(checkStarted)
    ELSE IF isGameWon THEN Returned(0)
    ELSE Returned(scoreFrom(0, 0))

----------------------------------------------------------------------------
(* The visual view, its cards and its controller.  Screen positions are    *)
(* kept in half pixels: xOffset halves an odd number of pixels.            *)

\* Pos2D: a pair of numbers, equal to another of the same x and y.
Pos2D(x, y) == [x |-> x, y |-> y]

\* Card.toString: A, J, Q and K for 1, 11, 12 and 13, the number for the
\* other values, and then the suit.
toString(card) ==
    IF card.value = 1 THEN "A" \o card.suit
    ELSE IF card.value = 11 THEN "J" \o card.suit
    ELSE IF card.value = 12 THEN "Q" \o card.suit
    ELSE IF card.value = 13 THEN "K" \o card.suit
    ELSE ToString(card.value) \o card.suit

\* new ViewCard(...): not selected, visible.
ViewCard(screenPos, pyramidPos, label, isDrawCard) ==
    [selected |-> FALSE, visible |-> TRUE, screenPos |-> screenPos,
     pyramidPos |-> pyramidPos, label |-> label, isDrawCard |-> isDrawCard]

CARD_WIDTH == 60
CARD_HEIGHT == 70

\* In half pixels.
xOffset(row, pyramidHeight) ==
    (pyramidHeight - row - 1) * (CARD_WIDTH + 5) + 2 * 115

createPyramidViewCard(label, row, col, pyramidHeight) ==
    ViewCard(Pos2D(2 * (CARD_WIDTH + 5) * col + xOffset(row, pyramidHeight),
                   2 * ((CARD_HEIGHT - 10) * row + 20)),
             Pos2D(row, col), label, FALSE)

createDrawViewCard(label, index) ==
    ViewCard(Pos2D(2 * (index * (CARD_WIDTH + 5) + 20), 2 * 525),
             Pos2D(index, -1), label, TRUE)

\* The fields of the view after its constructor, with what the canvas shows
\* (shown), the handler that ran last, the Error it caught (caught), the
\* Error that left it uncaught (thrown), the engine call it made (call), and
\* whether some handler has ended with an uncaught Error (failed).
NewView ==
    [cards |-> <<>>, selected |-> 0, drawsSelected |-> 0, score |-> 0,
     shown |-> "", handler |-> "constructor", call |-> "none",
     caught |-> OK, thrown |-> OK, failed |-> FALSE]

\* refresh: the win message for a score of 0, the score line otherwise.
refresh(v) ==
    [v EXCEPT !.shown = IF v.score = 0 THEN "You Won! "
                        ELSE "Score: " \o ToString(v.score)]

makeInvisible(v, pyramidPos) ==
    [v EXCEPT !.cards =
        [index \in DOMAIN v.cards |->
            IF v.cards[index].pyramidPos = pyramidPos
                  /\ ~v.cards[index].isDrawCard
            THEN [v.cards[index] EXCEPT !.visible = FALSE, !.selected = FALSE]
            ELSE v.cards[index]]]

\* The view's getDrawCards: the places in cards of the draw cards, in order.
getDrawViewCards(v) ==
    SelectSeq([index \in 1..Len(v.cards) |-> index],
              LAMBDA index : v.cards[index].isDrawCard)

\* getMatchingCard: the first card whose toString is the label; toString of
\* a null entry met before it is a TypeError, no such card is an Error.
getMatchingCard(label, cards) ==
    LET stops == {index \in 1..Len(cards) :
                     cards[index] = Null \/ toString(cards[index]) = label}
        first == CHOOSE index \in stops : \A other \in stops : index <= other
    IN  IF stops = {} THEN Thrown("Error")
        ELSE IF cards[first] = Null THEN Thrown("TypeError")
        ELSE Returned(cards[first])

\* Array.indexOf, from 0.
indexOf(cards, card) ==
    LET places == {index \in 1..Len(cards) : cards[index] = card}
    IN  IF places = {} THEN -1
        ELSE (CHOOSE index \in places : \A other \in places : index <= other) - 1

\* updateDraws: the outcome (thrown) and the view it leaves.  The draw card
\* at removedDraw takes the label of the card now in its slot and is
\* deselected; then every draw card takes the index of the card of its label.
\* toString of a null replacement is a TypeError before any assignment.
updateDraws(v, removedDraw, newDrawCards) ==
    LET drawCards == getDrawViewCards(v)
        found == {k \in 1..Len(drawCards) :
                     v.cards[drawCards[k]].pyramidPos = removedDraw}
    IN  IF found = {} THEN [thrown |-> "TypeError", view |-> v]
        ELSE
        LET removedCard ==
                drawCards[CHOOSE k \in found : \A other \in found : k >= other]
            x == v.cards[removedCard].pyramidPos.x
            replacementCard ==
                IF x >= 0 /\ x < Len(newDrawCards) THEN newDrawCards[x + 1]
                ELSE Null
        IN  IF replacementCard = Null THEN [thrown |-> "TypeError", view |-> v]
            ELSE
            LET labelled ==
                    [v EXCEPT !.cards[removedCard].label = toString(replacementCard),
                              !.cards[removedCard].selected = FALSE]
                matching ==
                    [k \in 1..Len(drawCards) |->
                        getMatchingCard(labelled.cards[drawCards[k]].label,
                                        newDrawCards)]
                failing == {k \in 1..Len(drawCards) : matching[k].kind /= OK}
                stop == IF failing = {} THEN Len(drawCards) + 1
                        ELSE CHOOSE k \in failing : \A other \in failing : k <= other
                moved ==
                    [k \in 1..(stop - 1) |->
                        Pos2D(indexOf(newDrawCards, matching[k].value), -1)]
            IN  [thrown |-> IF failing = {} THEN OK ELSE matching[stop].kind,
                 view |->
                    [labelled EXCEPT !.cards =
                        [index \in DOMAIN labelled.cards |->
                            IF \E k \in 1..(stop - 1) : drawCards[k] = index
                            THEN [labelled.cards[index] EXCEPT !.pyramidPos =
                                     moved[CHOOSE k \in 1..(stop - 1) :
                                               drawCards[k] = index]]
                            ELSE labelled.cards[index]]]]

deselect(v, cardPositions) ==
    [v EXCEPT !.cards =
        [index \in DOMAIN v.cards |->
            IF \E posIndex \in DOMAIN cardPositions :
                  cardPositions[posIndex] = v.cards[index].pyramidPos
            THEN [v.cards[index] EXCEPT !.selected = FALSE]
            ELSE v.cards[index]]]

updateScore(v, score) == [v EXCEPT !.score = score]

\* getSelectedCards: the pyramid positions of the selected cards, in order.
getSelectedCards(v) ==
    LET chosen == SelectSeq(v.cards, LAMBDA card : card.selected)
    IN  [index \in 1..Len(chosen) |-> chosen[index].pyramidPos]

resetSelected(v) == [v EXCEPT !.selected = 0, !.drawsSelected = 0]

notCovered(v, pyramidPosition, isDrawCard) ==
    \/ isDrawCard
    \/ ~\E index \in DOMAIN v.cards :
          /\ \/ v.cards[index].pyramidPos =
                    Pos2D(pyramidPosition.x + 1, pyramidPosition.y)
             \/ v.cards[index].pyramidPos =
                    Pos2D(pyramidPosition.x + 1, pyramidPosition.y + 1)
          /\ v.cards[index].visible
          /\ ~v.cards[index].isDrawCard

\* Whether the point (x, y), in half pixels, is on the card.
contains(card, x, y) ==
    /\ x > card.screenPos.x /\ x < card.screenPos.x + 2 * 60
    /\ y > card.screenPos.y /\ y < card.screenPos.y + 2 * (70 - 10)

\* Mutation of mayBeSelected: a second draw card may be selected.
mayBeSelectedAnyDraw(v, card) == v.selected < 2 /\ card.visible

\* The test selectCard makes on a card that is not selected.
mayBeSelected(v, card) ==
    /\ v.selected < 2 /\ card.visible
    /\ \/ ~card.isDrawCard
       \/ card.isDrawCard /\ v.drawsSelected < 1

\* The body of selectCard's loop for the cards at the places onPoint, from
\* the k-th on: a selected card is deselected, a card that is not is
\* selected if it may be, and the counters follow.
RECURSIVE toggleFrom(_, _, _)
toggleFrom(v, onPoint, k) ==
    IF k > Len(onPoint) THEN v
    ELSE
    LET index == onPoint[k]
        card == v.cards[index]
    IN  IF card.selected
        THEN toggleFrom(
                 [v EXCEPT !.selected = @ - 1,
                           !.drawsSelected = IF card.isDrawCard THEN @ - 1 ELSE @,
                           !.cards[index].selected = FALSE],
                 onPoint, k + 1)
        ELSE IF mayBeSelected(v, card)
        THEN toggleFrom(
                 [v EXCEPT !.selected = @ + 1,
                           !.drawsSelected = IF card.isDrawCard THEN @ + 1 ELSE @,
                           !.cards[index].selected = TRUE],
                 onPoint, k + 1)
        ELSE toggleFrom(v, onPoint, k + 1)

\* selectCard: every uncovered card on the point is toggled, in order.  The
\* loop changes no card's visibility, so notCovered is the same all along.
selectCard(v, x, y) ==
    toggleFrom(v,
               SelectSeq([index \in 1..Len(v.cards) |-> index],
                         LAMBDA index :
                            /\ contains(v.cards[index], x, y)
                            /\ notCovered(v, v.cards[index].pyramidPos,
                                          v.cards[index].isDrawCard)),
               1)

\* The controller's tests on the positions it is given.
containsDrawCard(positions) ==
    \E index \in DOMAIN positions : positions[index].y = -1

validCards(positions) ==
    Cardinality({index \in DOMAIN positions : positions[index].y = -1}) <= 1

\* removeWithDraw's choice: the last position of each kind.
lastPosition(cardPositions, isDraw) ==
    LET same == {index \in DOMAIN cardPositions :
                  (cardPositions[index].y = -1) = isDraw}
    IN  cardPositions[CHOOSE index \in same : \A other \in same : index >= other]

----------------------------------------------------------------------------
(* The callers' inputs.                                                    *)

\* Positions asked of the removals: every slot of a pyramid of MaxRows rows,
\* and one position past each edge (a row above the top, a row below the
\* last, a column left of a row, a column right of it).
PositionInputs ==
    {<<row, card>> : row \in 0..(MaxRows - 1), card \in 0..(MaxRows - 1)}
        \cup {<<-1, 0>>, <<MaxRows, 0>>, <<0, -1>>}

\* Draw indexes asked of discardDraw and removeUsingDraw.
DrawInputs == {-1} \cup DrawCountInputs

\* The cards of a pyramid of numRows rows.
pyramidCards(numRows) == (numRows * (numRows + 1)) \div 2

\* Layouts startGame accepts: few draw cards and a long stock, or so many
\* draw cards that the stock is short or empty.
ValidLayouts ==
    {<<numRows, numDraw>> : numRows \in 1..MaxRows, numDraw \in DrawCountInputs}
        \cup {<<numRows, Len(getDeck) - pyramidCards(numRows) - spare>> :
                  numRows \in 1..MaxRows, spare \in SpareInputs}

\* Layouts startGame refuses: no rows and no draws, no rows, negative rows,
\* negative draws, one card more than the deck has, and negative rows or no
\* rows that ask for more cards than the deck has.
InvalidLayouts ==
    {<<0, 0>>, <<0, 1>>, <<-1, 1>>, <<1, -1>>, <<1, Len(getDeck)>>, <<-11, 0>>,
     <<0, Len(getDeck) + 1>>}

\* The calls of startGame: every valid deck, unshuffled, in every valid
\* layout; getDeck shuffled in every valid layout and unshuffled in every
\* invalid one; every other deck, and null, in a valid and in an invalid
\* layout.
StartInputs ==
    {<<deck, FALSE, layout[1], layout[2]>> :
         deck \in ValidDecks, layout \in ValidLayouts}
        \cup {<<getDeck, TRUE, layout[1], layout[2]>> : layout \in ValidLayouts}
        \cup {<<getDeck, FALSE, layout[1], layout[2]>> : layout \in InvalidLayouts}
        \cup {<<deck, FALSE, layout[1], layout[2]>> :
                  deck \in InvalidDecks \cup {NullDeck},
                  layout \in {<<1, 1>>, <<0, 0>>}}

Init ==
    /\ gamestate = NOT_STARTED
    /\ pyramid = <<>>
    /\ draws = <<>>
    /\ stock = <<>>
    /\ last = [op |-> "constructor", args |-> <<>>, result |-> OK]
    /\ pre = NewFields
    /\ moves = 0
    /\ callerDeck = [given |-> <<>>, now |-> <<>>]
    /\ snapshot = [from |-> "none", value |-> <<>>]
    /\ view = NewView

\* Spec follows the engine alone: the arrays in the caller's hands stay as
\* Init has them.  SpecCaller, below, follows them too.
StartGame ==
    /\ \E call \in StartInputs : startGame(call[1], call[2], call[3], call[4])
    /\ UNCHANGED <<callerDeck, snapshot, view>>

\* remove and removeTwo assign slots of the rows of this.pyramid and nothing
\* else.
Remove ==
    /\ \E pos \in PositionInputs : remove(pos[1], pos[2])
    /\ UNCHANGED <<callerDeck, snapshot, view>>

RemoveTwo ==
    /\ \E pos1 \in PositionInputs, pos2 \in PositionInputs :
          removeTwo(pos1[1], pos1[2], pos2[1], pos2[2])
    /\ UNCHANGED <<callerDeck, snapshot, view>>

RemoveUsingDraw ==
    /\ \E drawIndex \in DrawInputs, pos \in PositionInputs :
          removeUsingDraw(drawIndex, pos[1], pos[2])
    /\ UNCHANGED <<callerDeck, snapshot, view>>

DiscardDraw ==
    /\ \E drawIndex \in DrawInputs : discardDraw(drawIndex)
    /\ UNCHANGED <<callerDeck, snapshot, view>>

Next == StartGame \/ Remove \/ RemoveTwo \/ RemoveUsingDraw \/ DiscardDraw

Spec == Init /\ [][Next]_vars

----------------------------------------------------------------------------
(* The engine together with a caller that keeps its deck array and the     *)
(* arrays it gets from getDrawCards and getPyramid, and assigns to them.   *)
(* An array is named after the place that creates it.                      *)

\* The array this.stock refers to, which dealCards and the draw loop shift
\* and discardDraw shifts later: deckCopy, the new array startGame fills
\* from deck -- not "deck", the array of the caller.
\* Mutation of stockArray: startGame deals from the caller's array.
stockArrayIsDeck == "deck"

stockArray == "deckCopy"

\* The array getDrawCards returns: drawsCopy, a new array filled from
\* this.draws -- not "draws".
\* Mutation of drawCardsArray: getDrawCards returns this.draws.
drawCardsArrayIsDraws == "draws"

drawCardsArray == "drawsCopy"

\* The array getPyramid returns: result, a new array -- not "pyramid".
\* Mutation of getPyramidArray: getPyramid returns this.pyramid.
getPyramidArrayIsPyramid == "pyramid"

getPyramidArray == "result"

\* The arrays getPyramid puts into result: rowCopy, a new array for every
\* row -- not "row", the rows of this.pyramid.
\* Mutation of getPyramidRowArray: result takes the rows of this.pyramid.
getPyramidRowArrayIsRow == "row"

getPyramidRowArray == "rowCopy"

\* getPyramid has no checkStarted: before startGame this.pyramid is
\* undefined and forEach is called on it.
getPyramid ==
    IF gamestate = NOT_STARTED THEN Thrown("TypeError")
    ELSE Returned([r \in 1..Len(pyramid) |->
                      [c \in 1..Len(pyramid[r]) |-> pyramid[r][c]]])

\* The caller's deck array once the engine has shifted the array of
\* this.stock down to newStock.
callerDeckAfter(given, newStock) ==
    [given |-> given, now |-> IF stockArray = "deck" THEN newStock ELSE given]

\* The calls of startGame of this caller: the deck of getDeck and a reordered
\* one, in two rows with two draws; the reordered one with every other card
\* a draw, so that the stock is empty; the deck of getDeck shuffled; a deck
\* one card short, which startGame refuses.
CallerStartInputs ==
    {<<getDeck, FALSE, 2, 2>>, <<DeckPairs, FALSE, 2, 2>>,
     <<DeckPairs, FALSE, 2, Len(DeckPairs) - pyramidCards(2)>>,
     <<getDeck, TRUE, 1, 1>>, <<DeckShort, FALSE, 1, 1>>}

\* The entries of a draw snapshot the caller assigns to.
CallerIndexInputs == DrawCountInputs

\* The caller holds no array from a query.
NoSnapshot == [from |-> "none", value |-> <<>>]

\* This caller lets go of the array it got from a query before it calls the
\* engine again.
CallerStartGame ==
    \E call \in CallerStartInputs :
        /\ startGame(call[1], call[2], call[3], call[4])
        /\ callerDeck' =
               IF startGameChecks(call[1], call[3], call[4]) = OK
               THEN callerDeckAfter(call[1], stock')
               ELSE [given |-> call[1], now |-> call[1]]
        /\ snapshot' = NoSnapshot
        /\ UNCHANGED view

CallerRemove ==
    /\ \E pos \in PositionInputs : remove(pos[1], pos[2])
    /\ snapshot' = NoSnapshot
    /\ UNCHANGED view
    /\ UNCHANGED callerDeck

CallerRemoveTwo ==
    /\ \E pos1 \in PositionInputs, pos2 \in PositionInputs :
          removeTwo(pos1[1], pos1[2], pos2[1], pos2[2])
    /\ snapshot' = NoSnapshot
    /\ UNCHANGED view
    /\ UNCHANGED callerDeck

CallerRemoveUsingDraw ==
    /\ \E drawIndex \in DrawInputs, pos \in PositionInputs :
          removeUsingDraw(drawIndex, pos[1], pos[2])
    /\ callerDeck' = IF stock' = stock THEN callerDeck
                     ELSE callerDeckAfter(callerDeck.given, stock')
    /\ snapshot' = NoSnapshot
    /\ UNCHANGED view

CallerDiscardDraw ==
    /\ \E drawIndex \in DrawInputs : discardDraw(drawIndex)
    /\ callerDeck' = IF stock' = stock THEN callerDeck
                     ELSE callerDeckAfter(callerDeck.given, stock')
    /\ snapshot' = NoSnapshot
    /\ UNCHANGED view

\* A query of the caller: it changes no field.
Asks(op, kind) ==
    /\ last' = [op |-> op, args |-> <<>>, result |-> kind]
    /\ pre' = State
    /\ UNCHANGED <<gamestate, pyramid, draws, stock, moves, callerDeck, view>>

CallerGetDrawCards ==
    /\ Asks("getDrawCards", getDrawCards.kind)
    /\ snapshot' = IF getDrawCards.kind = OK
                   THEN [from |-> "getDrawCards", value |-> getDrawCards.value]
                   ELSE snapshot

CallerGetPyramid ==
    /\ Asks("getPyramid", getPyramid.kind)
    /\ snapshot' = IF getPyramid.kind = OK
                   THEN [from |-> "getPyramid", value |-> getPyramid.value]
                   ELSE snapshot

\* An assignment of the caller to an array it holds: the engine's fields
\* change where the array is one of the engine's.
Assigns(op, args, newPyramid, newDraws) ==
    /\ last' = [op |-> op, args |-> args, result |-> OK]
    /\ pre' = State
    /\ pyramid' = newPyramid
    /\ draws' = newDraws
    /\ UNCHANGED <<gamestate, stock, moves, callerDeck, view>>

\* snapshot[index] = null on an array from getDrawCards.
CallerAssignsDrawCard ==
    /\ snapshot.from = "getDrawCards"
    /\ \E index \in CallerIndexInputs :
          /\ index < Len(snapshot.value)
          /\ snapshot.value[index + 1] /= Null
          /\ snapshot' = [snapshot EXCEPT !.value[index + 1] = Null]
          /\ Assigns("assignDrawCard", <<index>>, pyramid,
                     IF drawCardsArray = "draws" THEN snapshot'.value ELSE draws)

\* snapshot[row][card] = null on an array from getPyramid.
CallerAssignsPyramidCard ==
    /\ snapshot.from = "getPyramid"
    /\ \E row \in 0..(Len(snapshot.value) - 1) :
          \E card \in 0..(Len(snapshot.value[row + 1]) - 1) :
              /\ snapshot.value[row + 1][card + 1] /= Null
              /\ snapshot' =
                     [snapshot EXCEPT !.value[row + 1][card + 1] = Null]
              /\ Assigns("assignPyramidCard", <<row, card>>,
                         IF getPyramidArray = "pyramid"
                                \/ getPyramidRowArray = "row"
                         THEN [pyramid EXCEPT ![row + 1][card + 1] = Null]
                         ELSE pyramid,
                         draws)

\* snapshot[row] = [] on an array from getPyramid.
CallerAssignsPyramidRow ==
    /\ snapshot.from = "getPyramid"
    /\ \E row \in 0..(Len(snapshot.value) - 1) :
          /\ snapshot.value[row + 1] /= <<>>
          /\ snapshot' = [snapshot EXCEPT !.value[row + 1] = <<>>]
          /\ Assigns("assignPyramidRow", <<row>>,
                     IF getPyramidArray = "pyramid"
                     THEN [pyramid EXCEPT ![row + 1] = <<>>]
                     ELSE pyramid,
                     draws)

NextCaller ==
    \/ CallerStartGame
    \/ CallerRemove
    \/ CallerRemoveTwo
    \/ CallerRemoveUsingDraw
    \/ CallerDiscardDraw
    \/ CallerGetDrawCards
    \/ CallerGetPyramid
    \/ CallerAssignsDrawCard
    \/ CallerAssignsPyramidCard
    \/ CallerAssignsPyramidRow

SpecCaller == Init /\ [][NextCaller]_vars

----------------------------------------------------------------------------
(* One game played to its end: startGame once, on an engine not yet        *)
(* started, and then removals and discards without the bound MaxCalls.     *)
(* The draw pile is short, so that the calls reach every draw slot.        *)

\* The calls of startGame of a game played to its end: one row or two, one
\* draw slot or none, of the decks whose first cards are kings and pairs.
PlayStartInputs ==
    {<<deck, FALSE, numRows, numDraw>> :
        deck \in {DeckKings, DeckPairs}, numRows \in 1..2, numDraw \in 0..1}

PlayStartGame ==
    /\ gamestate = NOT_STARTED
    /\ \E call \in PlayStartInputs :
          startGame(call[1], call[2], call[3], call[4])
    /\ UNCHANGED <<callerDeck, snapshot, view>>

PlayRemove ==
    /\ \E pos \in PositionInputs :
          IF removeChecks(pos[1], pos[2]) /= OK
          THEN Throws("remove", removeChecks(pos[1], pos[2]))
          ELSE /\ pyramid' = [pyramid EXCEPT ![pos[1] + 1][pos[2] + 1] = Null]
               /\ moves' = moves + 1
               /\ UNCHANGED <<gamestate, draws, stock>>
               /\ Succeeds("remove", pos)
    /\ UNCHANGED <<callerDeck, snapshot, view>>

PlayRemoveTwo ==
    /\ \E pos1 \in PositionInputs, pos2 \in PositionInputs :
          IF removeTwoOutcome(pos1[1], pos1[2], pos2[1], pos2[2]) /= OK
          THEN Throws("removeTwo",
                      removeTwoOutcome(pos1[1], pos1[2], pos2[1], pos2[2]))
          ELSE /\ pyramid' = [[pyramid EXCEPT ![pos1[1] + 1][pos1[2] + 1] = Null]
                                  EXCEPT ![pos2[1] + 1][pos2[2] + 1] = Null]
               /\ moves' = moves + 1
               /\ UNCHANGED <<gamestate, draws, stock>>
               /\ Succeeds("removeTwo", pos1 \o pos2)
    /\ UNCHANGED <<callerDeck, snapshot, view>>

PlayRemoveUsingDraw ==
    /\ \E drawIndex \in DrawInputs, pos \in PositionInputs :
          IF removeUsingDrawChecks(drawIndex, pos[1], pos[2]) /= OK
          THEN Throws("removeUsingDraw",
                      removeUsingDrawChecks(drawIndex, pos[1], pos[2]))
          ELSE /\ pyramid' = [pyramid EXCEPT ![pos[1] + 1][pos[2] + 1] = Null]
               /\ moves' = moves + 1
               /\ pre' = State
               /\ UNCHANGED gamestate
               /\ IF discardDrawChecks(drawIndex) /= OK
                  THEN /\ UNCHANGED <<draws, stock>>
                       /\ last' = [op |-> "removeUsingDraw",
                                   args |-> <<drawIndex>> \o pos,
                                   result |-> discardDrawChecks(drawIndex)]
                  ELSE /\ draws' = drawsAfterDiscard(drawIndex)
                       /\ stock' = stockAfterDiscard
                       /\ last' = [op |-> "removeUsingDraw",
                                   args |-> <<drawIndex>> \o pos,
                                   result |-> OK]
    /\ UNCHANGED <<callerDeck, snapshot, view>>

PlayDiscardDraw ==
    /\ \E drawIndex \in DrawInputs :
          IF discardDrawChecks(drawIndex) /= OK
          THEN Throws("discardDraw", discardDrawChecks(drawIndex))
          ELSE /\ draws' = drawsAfterDiscard(drawIndex)
               /\ stock' = stockAfterDiscard
               /\ moves' = moves + 1
               /\ UNCHANGED <<gamestate, pyramid>>
               /\ Succeeds("discardDraw", <<drawIndex>>)
    /\ UNCHANGED <<callerDeck, snapshot, view>>

NextPlay ==
    \/ PlayStartGame
    \/ PlayRemove
    \/ PlayRemoveTwo
    \/ PlayRemoveUsingDraw
    \/ PlayDiscardDraw

\* A step of the play that is a call which succeeds.
PlaySucceeds == NextPlay /\ last'.result = OK

\* The player goes on as long as some call can succeed: nothing in the code
\* ends a game, it is the caller who stops calling.
SpecPlay == Init /\ [][NextPlay]_vars /\ WF_vars(PlaySucceeds)

----------------------------------------------------------------------------
(* The page of App: the controller's playGame once, and then the view's    *)
(* listeners for clicks on the canvas and on the Remove Selected button.   *)

\* App calls playGame(model.getDeck(), false, 7, 3).  Here the pyramid has
\* MaxRows rows, the deck is one whose first cards can be removed, and the
\* draw pile has two cards or takes the whole of the deck, which leaves no
\* stock.
ViewStartInputs ==
    {<<deck, FALSE, MaxRows, numDraw>> :
        deck \in {DeckPairs, DeckKings, DeckCover},
        numDraw \in {2, Len(getDeck) - pyramidCards(MaxRows)}}

\* The view cards playGame hands to the view's drawCard, which appends them
\* to cards: the pyramid row by row, then the draw cards.
RECURSIVE pyramidViewCardsFrom(_, _)
pyramidViewCardsFrom(cards, row) ==
    IF row >= Len(cards) THEN <<>>
    ELSE [col \in 1..Len(cards[row + 1]) |->
             createPyramidViewCard(toString(cards[row + 1][col]),
                                   row, col - 1, Len(cards))]
             \o pyramidViewCardsFrom(cards, row + 1)

drawViewCards(drawCards) ==
    [index \in 1..Len(drawCards) |->
        createDrawViewCard(toString(drawCards[index]), index - 1)]

\* The view playGame leaves, given what the model returns after startGame.
playGame(v, cards, drawCards, score) ==
    [refresh(updateScore(
         [v EXCEPT !.cards = @ \o pyramidViewCardsFrom(cards, 0)
                               \o drawViewCards(drawCards)],
         score))
     EXCEPT !.handler = "playGame", !.call = "startGame"]

\* A handler that ends with an uncaught Error.
Uncaught(v, handler, call, caught, thrown) ==
    [v EXCEPT !.handler = handler, !.call = call, !.caught = caught,
              !.thrown = thrown, !.failed = TRUE]

PageLoads ==
    /\ gamestate = NOT_STARTED
    /\ view.handler = "constructor"
    /\ \E call \in ViewStartInputs :
          /\ startGame(call[1], call[2], call[3], call[4])
          /\ view' = IF last'.result /= OK
                     THEN Uncaught(view, "playGame", "startGame", OK, last'.result)
                     ELSE playGame(view, getPyramid'.value, getDrawCards'.value,
                                   getScore'.value)
    /\ UNCHANGED <<callerDeck, snapshot>>

pageOffset == 32

\* The points clicked, in half pixels: the middle of every pyramid card and
\* of the first draw cards, and a point off every card.
ClickInputs ==
    {Pos2D(0, 0)}
        \cup {Pos2D(view.cards[index].screenPos.x + CARD_WIDTH,
                    view.cards[index].screenPos.y + (CARD_HEIGHT - 10)
                        + 2 * pageOffset) :
                 index \in {i \in DOMAIN view.cards :
                               \/ ~view.cards[i].isDrawCard
                               \/ \E d \in DrawCountInputs :
                                     view.cards[i].screenPos
                                         = createDrawViewCard("", d).screenPos}}

\* mouseListener: selectCard at the point, then refresh.
MouseListener ==
    /\ gamestate = STARTED
    /\ \E point \in ClickInputs :
          view' = [refresh(selectCard(view, point.x, point.y - 2 * pageOffset))
                   EXCEPT !.handler = "mouseListener", !.call = "none",
                          !.caught = OK, !.thrown = OK]
    /\ UNCHANGED <<gamestate, pyramid, draws, stock, last, pre, moves,
                   callerDeck, snapshot>>

\* The loop of removeSelected that makes the removed cards invisible.
RECURSIVE makeInvisibleFrom(_, _, _)
makeInvisibleFrom(v, cardPositions, index) ==
    IF index > Len(cardPositions) THEN v
    ELSE makeInvisibleFrom(makeInvisible(v, cardPositions[index]),
                           cardPositions, index + 1)

\* The view after a call of the model that threw nothing.
removed(v, cardPositions) == makeInvisibleFrom(v, cardPositions, 1)

\* The end of a removeSelected that returns: the score is taken from the
\* model, the view is refreshed, and the listener resets the counters.
Completes(v, score, call, caught) ==
    [resetSelected(refresh(updateScore(v, score)))
     EXCEPT !.handler = "removeSelected", !.call = call, !.caught = caught,
            !.thrown = OK]

\* removeButtonActionListener: the controller's removeSelected on the
\* selected positions, and then resetSelected.  The controller's discardDraw
\* calls updateDraws outside any try; removeWithDraw calls it inside the try
\* of removeSelected.
RemoveButtonActionListener ==
    /\ gamestate = STARTED
    /\ LET cardPositions == getSelectedCards(view)
       IN  IF ~validCards(cardPositions)
           THEN /\ UNCHANGED <<gamestate, pyramid, draws, stock, last, pre, moves>>
                /\ view' = Completes(deselect(view, cardPositions),
                                     getScore.value, "none", OK)
           ELSE IF Len(cardPositions) = 1 /\ containsDrawCard(cardPositions)
           THEN /\ discardDraw(cardPositions[1].x)
                /\ LET updated ==
                           updateDraws(IF last'.result /= OK
                                       THEN deselect(view, cardPositions)
                                       ELSE view,
                                       cardPositions[1], getDrawCards'.value)
                   IN  view' = IF updated.thrown /= OK
                               THEN Uncaught(updated.view, "removeSelected",
                                             "discardDraw", last'.result,
                                             updated.thrown)
                               ELSE Completes(updated.view, getScore'.value,
                                              "discardDraw", last'.result)
           ELSE IF containsDrawCard(cardPositions)
           THEN LET drawCard == lastPosition(cardPositions, TRUE)
                    nonDrawCard == lastPosition(cardPositions, FALSE)
                IN  /\ removeUsingDraw(drawCard.x, nonDrawCard.x, nonDrawCard.y)
                    /\ LET updated ==
                               updateDraws(view, drawCard, getDrawCards'.value)
                       IN  view' =
                               IF last'.result /= OK
                               THEN Completes(deselect(view, cardPositions),
                                              getScore'.value, "removeUsingDraw",
                                              last'.result)
                               ELSE IF updated.thrown /= OK
                               THEN Completes(deselect(updated.view, cardPositions),
                                              getScore'.value, "removeUsingDraw",
                                              updated.thrown)
                               ELSE Completes(removed(updated.view, cardPositions),
                                              getScore'.value, "removeUsingDraw",
                                              OK)
           ELSE IF Len(cardPositions) = 1
           THEN /\ remove(cardPositions[1].x, cardPositions[1].y)
                /\ view' = Completes(IF last'.result /= OK
                                     THEN deselect(view, cardPositions)
                                     ELSE removed(view, cardPositions),
                                     getScore'.value, "remove", last'.result)
           ELSE IF Len(cardPositions) >= 2
           THEN /\ removeTwo(cardPositions[1].x, cardPositions[1].y,
                             cardPositions[2].x, cardPositions[2].y)
                /\ view' = Completes(IF last'.result /= OK
                                     THEN deselect(view, cardPositions)
                                     ELSE removed(view, cardPositions),
                                     getScore'.value, "removeTwo", last'.result)
           ELSE \* no position: cardPositions[0].getX() is a TypeError, caught
                /\ UNCHANGED <<gamestate, pyramid, draws, stock, last, pre, moves>>
                /\ view' = Completes(deselect(view, cardPositions),
                                     getScore.value, "none", "TypeError")
    /\ UNCHANGED <<callerDeck, snapshot>>

NextView == PageLoads \/ MouseListener \/ RemoveButtonActionListener

SpecView == Init /\ [][NextView]_vars

----------------------------------------------------------------------------
(* What the properties below speak of, in the words of the specification.  *)
(* f is a record of the four fields: State now, pre before the last call.  *)

StartedIn(f) == f.gamestate = STARTED

\* The slots of the pyramid of f: row r has the columns 0 .. r.
SlotsIn(f) ==
    {pos \in (0..(Len(f.pyramid) - 1)) \X (0..(Len(f.pyramid) - 1)) :
        pos[2] <= pos[1]}

InBoundsIn(f, row, card) ==
    row >= 0 /\ row < Len(f.pyramid) /\ card >= 0 /\ card <= row

SlotIn(f, row, card) == f.pyramid[row + 1][card + 1]

HoldsIn(f, row, card) == SlotIn(f, row, card) /= Null

Rank(card) == card.value

\* Uncovered: in the last row, or both slots directly beneath are empty.
UncoveredIn(f, row, card) ==
    \/ row = Len(f.pyramid) - 1
    \/ ~HoldsIn(f, row + 1, card) /\ ~HoldsIn(f, row + 1, card + 1)

ClearedIn(f) == \A pos \in SlotsIn(f) : ~HoldsIn(f, pos[1], pos[2])

\* The pyramid of f after the slots of gone have become empty.
PyramidWithout(f, gone) ==
    [r \in 1..Len(f.pyramid) |->
        [c \in 1..Len(f.pyramid[r]) |->
            IF <<r - 1, c - 1>> \in gone THEN Null ELSE f.pyramid[r][c]]]

\* The error kinds of the specification (section 7).
ErrorKinds ==
    {"InvalidDeck", "InsufficientCards", "InvalidLayout", "NotStarted",
     "OutOfBounds", "EmptySlot", "InvalidMove", "Covered"}

----------------------------------------------------------------------------
(* C1: remove(row, col) succeeds exactly when the game is started, the     *)
(* position is in bounds, the slot holds a card of rank 13 and the slot is *)
(* uncovered (last row, or both slots beneath empty); on success that slot *)
(* becomes empty and every other pyramid slot, the draw pile and the stock *)
(* are unchanged.                                                          *)

RemoveAllowedIn(f, row, card) ==
    /\ StartedIn(f)
    /\ InBoundsIn(f, row, card)
    /\ HoldsIn(f, row, card)
    /\ Rank(SlotIn(f, row, card)) = 13
    /\ UncoveredIn(f, row, card)

C1_RemoveContract ==
    /\ \A pos \in PositionInputs :
          (removeChecks(pos[1], pos[2]) = OK)
              <=> RemoveAllowedIn(State, pos[1], pos[2])
    /\ last.op = "remove" /\ last.result = OK =>
          /\ RemoveAllowedIn(pre, last.args[1], last.args[2])
          /\ pyramid = PyramidWithout(pre, {<<last.args[1], last.args[2]>>})
          /\ draws = pre.draws
          /\ stock = pre.stock
          /\ gamestate = pre.gamestate
    /\ last.op = "remove" /\ last.result /= OK => State = pre

\* A king above the last row has been removed: both slots beneath it were
\* empty.
C1_Witness ==
    /\ last.op = "remove"
    /\ last.result = OK
    /\ last.args[1] < Len(pyramid) - 1

----------------------------------------------------------------------------
(* C2: every failed call of start, remove, removeTwo, removeUsingDraw or   *)
(* discardDraw leaves the lifecycle flag, every pyramid slot, every draw   *)
(* slot and the stock exactly as they were before the call, and reports    *)
(* one of the specific error kinds.                                        *)

C2_FailedCallsReportKind ==
    last.result /= OK => State = pre /\ last.result \in ErrorKinds

\* The half of C2 that the code keeps: no failed call changes a field.
FailedCallsChangeNothing == last.result /= OK => State = pre

----------------------------------------------------------------------------
(* C3: once the game is started getScore returns 0 if every pyramid slot   *)
(* is empty and otherwise the sum of the ranks of the non-empty pyramid    *)
(* slots; right after a start that deals at least one pyramid card the     *)
(* score is positive.                                                      *)

RECURSIVE SumOfRanks(_, _)
SumOfRanks(f, slots) ==
    IF slots = {} THEN 0
    ELSE LET pos == CHOOSE p \in slots : TRUE
         IN Rank(SlotIn(f, pos[1], pos[2])) + SumOfRanks(f, slots \ {pos})

HeldSlotsIn(f) == {pos \in SlotsIn(f) : HoldsIn(f, pos[1], pos[2])}

C3_ScoreIsSumOfRanks ==
    StartedIn(State) =>
        /\ getScore = Returned(IF ClearedIn(State) THEN 0
                               ELSE SumOfRanks(State, HeldSlotsIn(State)))
        /\ last.op = "startGame" /\ last.result = OK /\ SlotsIn(State) /= {}
              => getScore.value > 0

----------------------------------------------------------------------------
(* C4: once the game is started isGameOver returns true if and only if the *)
(* pyramid is fully cleared, or none of these holds for the candidates     *)
(* (uncovered non-empty pyramid cards plus all non-empty draw cards):      *)
(* (a) a candidate has rank 13, (b) two distinct candidates have ranks     *)
(* summing to 13, (c) the stock is non-empty and there is a draw slot.     *)

UncoveredHeldIn(f) ==
    {pos \in HeldSlotsIn(f) : UncoveredIn(f, pos[1], pos[2])}

\* A candidate is named by where it lies, so that two cards of one rank
\* are two candidates.
CandidatesIn(f) ==
    {<<"pyramid", pos[1], pos[2]>> : pos \in UncoveredHeldIn(f)}
        \cup {<<"draw", d, 0>> : d \in {i \in 0..(Len(f.draws) - 1) :
                                            f.draws[i + 1] /= Null}}

RankOfIn(f, candidate) ==
    IF candidate[1] = "pyramid"
        THEN Rank(SlotIn(f, candidate[2], candidate[3]))
        ELSE Rank(f.draws[candidate[2] + 1])

SomeRemovalTarget(f, candidates) ==
    \E c \in candidates : RankOfIn(f, c) = 13

SomePairSums(f, candidates) ==
    \E c1 \in candidates, c2 \in candidates :
        c1 /= c2 /\ RankOfIn(f, c1) + RankOfIn(f, c2) = 13

StockCanBeDrawn(f) == Len(f.stock) > 0 /\ Len(f.draws) >= 1

C4_GameOverDefinition ==
    StartedIn(State) =>
        /\ isGameOver.kind = OK
        /\ isGameOver.value <=>
              \/ ClearedIn(State)
              \/ ~ \/ SomeRemovalTarget(State, CandidatesIn(State))
                   \/ SomePairSums(State, CandidatesIn(State))
                   \/ StockCanBeDrawn(State)

----------------------------------------------------------------------------
(* C5: immediately after a successful start isGameOver returns false       *)
(* whenever an uncovered pyramid card has rank 13, or two uncovered cards  *)
(* have ranks summing to 13, or the stock is non-empty and the draw pile   *)
(* has at least one slot.                                                  *)

PyramidCandidatesIn(f) ==
    {<<"pyramid", pos[1], pos[2]>> : pos \in UncoveredHeldIn(f)}

C5_NotOverRightAfterStart ==
    /\ last.op = "startGame"
    /\ last.result = OK
    /\ \/ SomeRemovalTarget(State, PyramidCandidatesIn(State))
       \/ SomePairSums(State, PyramidCandidatesIn(State))
       \/ StockCanBeDrawn(State)
    => isGameOver = Returned(FALSE)

----------------------------------------------------------------------------
(* C6: in every reachable state in which all pyramid slots are empty,      *)
(* isGameOver returns true and getScore returns 0, whatever cards remain   *)
(* in the draw pile and the stock.                                         *)

C6_ClearedIsOverWithScoreZero ==
    StartedIn(State) /\ ClearedIn(State) =>
        /\ isGameOver = Returned(TRUE)
        /\ getScore = Returned(0)

\* The pyramid has been cleared by play while a draw card and stock cards
\* remain.
C6_Witness ==
    /\ StartedIn(State)
    /\ ClearedIn(State)
    /\ last.op \in {"remove", "removeTwo", "removeUsingDraw"}
    /\ last.result = OK
    /\ Len(stock) > 0
    /\ \E d \in 1..Len(draws) : draws[d] /= Null

----------------------------------------------------------------------------
(* C7: isGameOver returns true exactly in terminal states: the pyramid is  *)
(* cleared, or no remove, removeTwo or removeUsingDraw call with any       *)
(* arguments can succeed and no discardDraw call can bring a card from the *)
(* stock into the draw pile.                                               *)

DrawSlots == 0..(Len(draws) - 1)

SomeCallCanSucceed ==
    \/ \E pos \in SlotsIn(State) : removeChecks(pos[1], pos[2]) = OK
    \/ \E pos1 \in SlotsIn(State), pos2 \in SlotsIn(State) :
          removeTwoOutcome(pos1[1], pos1[2], pos2[1], pos2[2]) = OK
    \/ \E d \in DrawSlots, pos \in SlotsIn(State) :
          removeUsingDrawChecks(d, pos[1], pos[2]) = OK
    \/ \E d \in DrawSlots : discardDrawChecks(d) = OK /\ Len(stock) > 0

C7_OverExactlyWhenTerminal ==
    StartedIn(State) =>
        /\ isGameOver.kind = OK
        /\ isGameOver.value <=> (ClearedIn(State) \/ ~SomeCallCanSucceed)

----------------------------------------------------------------------------
(* C8 as stated: in every state reachable after a successful start the     *)
(* number of pyramid slots plus the number of draw slots plus the length   *)
(* of the stock equals the size of the deck passed to start.               *)

SlotTotalIn(f) == Cardinality(SlotsIn(f)) + Len(f.draws) + Len(f.stock)

DeckSize == Len(getDeck)

C8_SlotTotalIsDeckSize ==
    StartedIn(State) => SlotTotalIn(State) = DeckSize

(* C8 as the code has it: the slot total equals the deck size right after  *)
(* a successful start and never exceeds it; a successful discardDraw or    *)
(* removeUsingDraw that finds the stock non-empty lowers it by exactly     *)
(* one (the card in the draw slot is overwritten by the front of the       *)
(* stock); every other call, successful or failed, leaves it unchanged.    *)

C8_SlotTotalShrinksOnStockDraw ==
    StartedIn(State) =>
        /\ SlotTotalIn(State) <= DeckSize
        /\ last.op = "startGame" /\ last.result = OK
              => SlotTotalIn(State) = DeckSize
        /\ last.op \in {"discardDraw", "removeUsingDraw"} /\ last.result = OK
              => SlotTotalIn(State) =
                     SlotTotalIn(pre) - (IF Len(pre.stock) > 0 THEN 1 ELSE 0)
        /\ last.op \in {"remove", "removeTwo"} /\ last.result = OK
              => SlotTotalIn(State) = SlotTotalIn(pre)
        /\ last.result /= OK => SlotTotalIn(State) = SlotTotalIn(pre)

\* A discard has overwritten a draw slot with the front of the stock: one
\* card fewer than the deck held.
C8_Witness ==
    /\ last.op = "discardDraw"
    /\ last.result = OK
    /\ Len(pre.stock) > 0
    /\ SlotTotalIn(pre) = DeckSize
    /\ SlotTotalIn(State) = DeckSize - 1

----------------------------------------------------------------------------
(* C9 as stated: the number of non-empty pyramid slots plus the number of  *)
(* non-empty draw slots plus the stock length equals the deck size after a *)
(* successful start, shrinks only on a successful remove, removeTwo or     *)
(* removeUsingDraw, and is left unchanged by a discardDraw call and by any *)
(* failed call.                                                            *)

HeldDrawsIn(f) == {d \in 1..Len(f.draws) : f.draws[d] /= Null}

CardTotalIn(f) ==
    Cardinality(HeldSlotsIn(f)) + Cardinality(HeldDrawsIn(f)) + Len(f.stock)

C9_DiscardKeepsCardTotal ==
    StartedIn(State) =>
        /\ last.op = "startGame" /\ last.result = OK
              => CardTotalIn(State) = DeckSize
        /\ last.op \in {"remove", "removeTwo", "removeUsingDraw"}
              /\ last.result = OK
              => CardTotalIn(State) < CardTotalIn(pre)
        /\ last.op = "discardDraw" \/ last.result /= OK
              => CardTotalIn(State) = CardTotalIn(pre)

(* C9 as the code has it: the card total equals the deck size right after  *)
(* a successful start; a successful remove lowers it by one, a successful  *)
(* removeTwo by two, a successful removeUsingDraw by two and a successful   *)
(* discardDraw by one (the discarded card leaves the game, whether or not  *)
(* the stock refills the slot); a failed call leaves it unchanged.         *)

C9_CardTotalDeltas ==
    StartedIn(State) =>
        /\ last.op = "startGame" /\ last.result = OK
              => CardTotalIn(State) = DeckSize
        /\ last.op = "remove" /\ last.result = OK
              => CardTotalIn(State) = CardTotalIn(pre) - 1
        /\ last.op = "removeTwo" /\ last.result = OK
              => CardTotalIn(State) = CardTotalIn(pre) - 2
        /\ last.op = "removeUsingDraw" /\ last.result = OK
              => CardTotalIn(State) = CardTotalIn(pre) - 2
        /\ last.op = "discardDraw" /\ last.result = OK
              => CardTotalIn(State) = CardTotalIn(pre) - 1
        /\ last.result /= OK => CardTotalIn(State) = CardTotalIn(pre)

\* A discard has been refilled from the stock, and the card total is one
\* lower although no card was removed from the pyramid.
C9_Witness ==
    /\ last.op = "discardDraw"
    /\ last.result = OK
    /\ draws[last.args[1] + 1] /= Null
    /\ pyramid = pre.pyramid
    /\ CardTotalIn(State) = CardTotalIn(pre) - 1

----------------------------------------------------------------------------
(* C10: removeTwo(r1, c1, r2, c2) succeeds exactly when the game is        *)
(* started, both positions are in bounds, both hold cards, the two ranks   *)
(* sum to 13 and both cards are uncovered; on success exactly those two    *)
(* slots become empty and the draw pile and the stock are unchanged; on    *)
(* any failure neither slot changes.                                       *)

RemoveTwoAllowedIn(f, row1, card1, row2, card2) ==
    /\ StartedIn(f)
    /\ InBoundsIn(f, row1, card1)
    /\ InBoundsIn(f, row2, card2)
    /\ HoldsIn(f, row1, card1)
    /\ HoldsIn(f, row2, card2)
    /\ Rank(SlotIn(f, row1, card1)) + Rank(SlotIn(f, row2, card2)) = 13
    /\ UncoveredIn(f, row1, card1)
    /\ UncoveredIn(f, row2, card2)

C10_RemoveTwoContract ==
    /\ \A pos1 \in PositionInputs, pos2 \in PositionInputs :
          (removeTwoOutcome(pos1[1], pos1[2], pos2[1], pos2[2]) = OK)
              <=> RemoveTwoAllowedIn(State, pos1[1], pos1[2], pos2[1], pos2[2])
    /\ last.op = "removeTwo" /\ last.result = OK =>
          /\ RemoveTwoAllowedIn(pre, last.args[1], last.args[2],
                                last.args[3], last.args[4])
          /\ pyramid = PyramidWithout(pre, {<<last.args[1], last.args[2]>>,
                                            <<last.args[3], last.args[4]>>})
          /\ Cardinality(HeldSlotsIn(State)) =
                 Cardinality(HeldSlotsIn(pre)) - 2
          /\ draws = pre.draws
          /\ stock = pre.stock
          /\ gamestate = pre.gamestate
    /\ last.op = "removeTwo" /\ last.result /= OK => State = pre

\* Two cards of the last row have been removed together and uncover the
\* card above them.
C10_Witness ==
    /\ last.op = "removeTwo"
    /\ last.result = OK
    /\ last.args[1] = last.args[3]
    /\ last.args[1] > 0
    /\ \E pos \in HeldSlotsIn(State) :
          /\ pos[1] < last.args[1]
          /\ UncoveredIn(State, pos[1], pos[2])
          /\ ~UncoveredIn(pre, pos[1], pos[2])

----------------------------------------------------------------------------
(* C11: removeUsingDraw(d, row, col) succeeds exactly when the game is     *)
(* started, d is in [0, D) with a card in draw slot d, (row, col) is in    *)
(* bounds and holds an uncovered card, and the two ranks sum to 13; on     *)
(* success the pyramid slot becomes empty and draw slot d receives the     *)
(* front card of the stock (the stock shrinking by that card) or becomes   *)
(* empty when the stock is empty; every other pyramid slot and draw slot   *)
(* is unchanged.                                                           *)

DrawInBoundsIn(f, d) == d >= 0 /\ d < Len(f.draws)

RemoveUsingDrawAllowedIn(f, d, row, card) ==
    /\ StartedIn(f)
    /\ DrawInBoundsIn(f, d)
    /\ f.draws[d + 1] /= Null
    /\ InBoundsIn(f, row, card)
    /\ HoldsIn(f, row, card)
    /\ UncoveredIn(f, row, card)
    /\ Rank(SlotIn(f, row, card)) + Rank(f.draws[d + 1]) = 13

\* The draw pile and the stock of f after draw slot d has been replenished.
DrawsReplenishedIn(f, d) ==
    [f.draws EXCEPT ![d + 1] = IF Len(f.stock) > 0 THEN f.stock[1] ELSE Null]

StockReplenishedIn(f) ==
    IF Len(f.stock) > 0 THEN Tail(f.stock) ELSE <<>>

C11_RemoveUsingDrawContract ==
    /\ \A d \in DrawInputs, pos \in PositionInputs :
          (removeUsingDrawChecks(d, pos[1], pos[2]) = OK)
              <=> RemoveUsingDrawAllowedIn(State, d, pos[1], pos[2])
    /\ last.op = "removeUsingDraw" /\ last.result = OK =>
          /\ RemoveUsingDrawAllowedIn(pre, last.args[1], last.args[2],
                                      last.args[3])
          /\ pyramid = PyramidWithout(pre, {<<last.args[2], last.args[3]>>})
          /\ draws = DrawsReplenishedIn(pre, last.args[1])
          /\ stock = StockReplenishedIn(pre)
          /\ gamestate = pre.gamestate
    /\ last.op = "removeUsingDraw" /\ last.result /= OK => State = pre

\* A pyramid card has been removed with a draw card and the slot of the draw
\* card holds what was the front of the stock.
C11_Witness ==
    /\ last.op = "removeUsingDraw"
    /\ last.result = OK
    /\ Len(pre.stock) > 0
    /\ draws[last.args[1] + 1] = pre.stock[1]
    /\ Len(stock) = Len(pre.stock) - 1

\* The same with an empty stock: the slot of the draw card is left empty.
RemoveUsingDrawOnEmptyStock ==
    /\ last.op = "removeUsingDraw"
    /\ last.result = OK
    /\ Len(pre.stock) = 0
    /\ draws[last.args[1] + 1] = Null

----------------------------------------------------------------------------
(* C12: a successful discardDraw(i) with a non-empty stock puts the card   *)
(* that was at the front of the stock into draw slot i and removes exactly *)
(* that card from the stock, the rest of the stock keeping its order;      *)
(* every other draw slot and the whole pyramid are unchanged.              *)

C12_DiscardTakesStockFront ==
    last.op = "discardDraw" /\ last.result = OK /\ Len(pre.stock) > 0 =>
        /\ draws[last.args[1] + 1] = pre.stock[1]
        /\ stock = Tail(pre.stock)
        /\ Len(draws) = Len(pre.draws)
        /\ \A d \in 1..Len(draws) :
              d /= last.args[1] + 1 => draws[d] = pre.draws[d]
        /\ pyramid = pre.pyramid
        /\ gamestate = pre.gamestate

\* A discard among several draw slots, from a stock of several cards.
C12_Witness ==
    /\ last.op = "discardDraw"
    /\ last.result = OK
    /\ Len(pre.stock) > 2
    /\ Len(draws) >= 2
    /\ draws[last.args[1] + 1] = pre.stock[1]
    /\ stock = Tail(pre.stock)

----------------------------------------------------------------------------
(* C13 as stated: a successful discardDraw(i) with an empty stock makes    *)
(* draw slot i empty, and from then on slot i stays empty in every later   *)
(* state of that game: no remove, removeTwo, removeUsingDraw or            *)
(* discardDraw puts a card into it, and every later discardDraw(i) or      *)
(* removeUsingDraw(i, ...) fails with EmptySlot.                           *)

EmptyDrawsIn(f) == {d \in 0..(Len(f.draws) - 1) : f.draws[d + 1] = Null}

\* The last call did not begin a new game.
SameGame == ~(last.op = "startGame" /\ last.result = OK)

DiscardOnEmptyStockEmptiesSlot ==
    last.op = "discardDraw" /\ last.result = OK /\ Len(pre.stock) = 0 =>
        /\ draws[last.args[1] + 1] = Null
        /\ stock = <<>>

EmptyDrawsStayEmpty ==
    StartedIn(pre) /\ SameGame => EmptyDrawsIn(pre) \subseteq EmptyDrawsIn(State)

C13_EmptiedSlotRefusesWithEmptySlot ==
    /\ DiscardOnEmptyStockEmptiesSlot
    /\ EmptyDrawsStayEmpty
    /\ StartedIn(State) =>
          \A d \in EmptyDrawsIn(State) :
              /\ discardDrawChecks(d) = "EmptySlot"
              /\ \A pos \in PositionInputs :
                    removeUsingDrawChecks(d, pos[1], pos[2]) = "EmptySlot"

(* C13 as the code has it: the slot is emptied and stays empty as stated,  *)
(* and every later discardDraw(i) fails with EmptySlot; a later            *)
(* removeUsingDraw(i, row, col) always fails too, with OutOfBounds when    *)
(* (row, col) is out of bounds (the pyramid position is validated before   *)
(* the draw slot is looked at) and with EmptySlot otherwise.               *)

C13_EmptiedSlotStaysEmpty ==
    /\ DiscardOnEmptyStockEmptiesSlot
    /\ EmptyDrawsStayEmpty
    /\ StartedIn(State) =>
          \A d \in EmptyDrawsIn(State) :
              /\ discardDrawChecks(d) = "EmptySlot"
              /\ \A pos \in PositionInputs :
                    removeUsingDrawChecks(d, pos[1], pos[2]) =
                        IF InBoundsIn(State, pos[1], pos[2])
                        THEN "EmptySlot" ELSE "OutOfBounds"

\* A call has succeeded after a draw slot was emptied, and the slot is still
\* empty.
C13_Witness ==
    /\ last.op \in {"removeUsingDraw", "discardDraw"}
    /\ last.result = OK
    /\ EmptyDrawsIn(pre) /= {}
    /\ EmptyDrawsIn(pre) \subseteq EmptyDrawsIn(State)

----------------------------------------------------------------------------
(* C14: for an in-bounds position in a started game, remove fails with     *)
(* EmptySlot when the slot holds no card, with InvalidMove when the card's *)
(* rank is not 13 (covered or not), and with Covered when the card has     *)
(* rank 13 but a slot directly beneath it holds a card; the checks apply   *)
(* in the order bounds, presence, rank, coverage, and the state is         *)
(* unchanged in each failing case.                                         *)

RemoveOutcomeIn(f, row, card) ==
    IF ~InBoundsIn(f, row, card) THEN "OutOfBounds"
    ELSE IF ~HoldsIn(f, row, card) THEN "EmptySlot"
    ELSE IF Rank(SlotIn(f, row, card)) /= 13 THEN "InvalidMove"
    ELSE IF ~UncoveredIn(f, row, card) THEN "Covered"
    ELSE OK

C14_RemoveErrorOrder ==
    /\ StartedIn(State) =>
          \A pos \in PositionInputs :
              removeChecks(pos[1], pos[2]) = RemoveOutcomeIn(State, pos[1], pos[2])
    /\ last.op = "remove"
          /\ last.result \in {"OutOfBounds", "EmptySlot", "InvalidMove", "Covered"}
          => State = pre

\* remove has been refused on a covered king, while a covered card of
\* another rank lies in the pyramid too.
C14_Witness ==
    /\ last.op = "remove"
    /\ last.result = "Covered"
    /\ State = pre
    /\ \E pos \in HeldSlotsIn(State) :
          /\ Rank(SlotIn(State, pos[1], pos[2])) = 13
          /\ ~UncoveredIn(State, pos[1], pos[2])

\* remove has been refused on a card that is covered and not a king: the
\* rank is what the call reports.
RemoveRefusedOnCoveredLowCard ==
    /\ last.op = "remove"
    /\ last.result = "InvalidMove"
    /\ \A pos \in HeldSlotsIn(State) :
          Rank(SlotIn(State, pos[1], pos[2])) /= 13
              => ~UncoveredIn(State, pos[1], pos[2])
    /\ \E pos \in HeldSlotsIn(State) :
          Rank(SlotIn(State, pos[1], pos[2])) /= 13

----------------------------------------------------------------------------
(* C15: in a started game remove, removeTwo, removeUsingDraw, getCardAt    *)
(* and getRowWidth fail with OutOfBounds for any row outside [0, R) or any *)
(* column outside [0, row], and removeUsingDraw and discardDraw fail with  *)
(* OutOfBounds for any draw index outside [0, D), hence for every index    *)
(* when D = 0; in each case the state is unchanged.                        *)

PositionsOutOfBounds ==
    {pos \in PositionInputs : ~InBoundsIn(State, pos[1], pos[2])}

RowsOutOfBounds ==
    {pos[1] : pos \in {p \in PositionInputs : p[1] < 0 \/ p[1] >= Len(pyramid)}}

DrawsOutOfBounds == {d \in DrawInputs : ~DrawInBoundsIn(State, d)}

C15_OutOfBounds ==
    /\ StartedIn(State) =>
          /\ \A pos \in PositionsOutOfBounds :
                /\ removeChecks(pos[1], pos[2]) = "OutOfBounds"
                /\ getCardAt(pos[1], pos[2]) = Thrown("OutOfBounds")
                /\ \A other \in PositionInputs :
                      /\ removeTwoOutcome(pos[1], pos[2], other[1], other[2])
                             = "OutOfBounds"
                      /\ removeTwoOutcome(other[1], other[2], pos[1], pos[2])
                             = "OutOfBounds"
                /\ \A d \in DrawInputs :
                      removeUsingDrawChecks(d, pos[1], pos[2]) = "OutOfBounds"
          /\ \A row \in RowsOutOfBounds :
                getRowWidth(row) = Thrown("OutOfBounds")
          /\ \A d \in DrawsOutOfBounds :
                /\ discardDrawChecks(d) = "OutOfBounds"
                /\ \A pos \in PositionInputs :
                      removeUsingDrawChecks(d, pos[1], pos[2]) = "OutOfBounds"
    /\ last.result = "OutOfBounds" => State = pre

\* discardDraw has been refused in a game dealt without draw slots, in which
\* a pyramid slot has been emptied.
C15_Witness ==
    /\ StartedIn(State)
    /\ Len(draws) = 0
    /\ last.op = "discardDraw"
    /\ last.result = "OutOfBounds"
    /\ State = pre
    /\ HeldSlotsIn(State) /= SlotsIn(State)

----------------------------------------------------------------------------
(* C16: with shuffle = false a successful start(deck, false, R, D) deals   *)
(* the deck in order: pyramid slot (r, c) holds deck[r(r+1)/2 + c] for     *)
(* 0 <= c <= r < R, draw slot i holds deck[R(R+1)/2 + i] for 0 <= i < D,   *)
(* and the stock is the remaining cards deck[R(R+1)/2 + D ..] in their     *)
(* original order.  (Indices of the claim count from 0.)                   *)

\* The element the claim calls deck[i].
At(deck, i) == deck[i + 1]

Triangle(n) == (n * (n + 1)) \div 2

DealtInOrder(deck, R, D) ==
    /\ Len(pyramid) = R
    /\ \A r \in 0..(R - 1) :
          /\ Len(pyramid[r + 1]) = r + 1
          /\ \A c \in 0..r : pyramid[r + 1][c + 1] = At(deck, Triangle(r) + c)
    /\ Len(draws) = D
    /\ \A i \in 0..(D - 1) : draws[i + 1] = At(deck, Triangle(R) + i)
    /\ Len(stock) = Len(deck) - Triangle(R) - D
    /\ \A k \in 0..(Len(stock) - 1) :
          stock[k + 1] = At(deck, Triangle(R) + D + k)

C16_DealsInOrder ==
    last.op = "startGame" /\ last.result = OK /\ last.args[2] = FALSE =>
        DealtInOrder(last.args[1], last.args[3], last.args[4])

\* A reordered deck has been dealt into two rows, two draw slots and a stock.
C16_Witness ==
    /\ last.op = "startGame"
    /\ last.result = OK
    /\ last.args[2] = FALSE
    /\ last.args[1] /= getDeck
    /\ last.args[3] = 2
    /\ last.args[4] = 2
    /\ Len(stock) = Len(getDeck) - 5
    /\ stock[1] = At(last.args[1], 5)

----------------------------------------------------------------------------
(* C17: start succeeds if and only if the deck is valid, numRows >= 1,     *)
(* numDraws >= 0 and numRows * (numRows + 1) / 2 + numDraws <= |deck|;     *)
(* otherwise it fails with the first violated precondition in the order    *)
(* InvalidDeck, InsufficientCards, InvalidLayout.                          *)

\* The valid deck of the specification: exactly 52 cards, every combination
\* of the 4 suits with the ranks 1 .. 13 present exactly once.
IsStandardDeck(deck) ==
    /\ deck /= NullDeck
    /\ Len(deck) = 52
    /\ \A suit \in {HEART, SPADE, CLUB, DIAMOND}, rank \in 1..13 :
          Cardinality({i \in 1..Len(deck) :
                          deck[i] = [suit |-> suit, value |-> rank]}) = 1

StartOutcome(deck, numRows, numDraws) ==
    IF ~IsStandardDeck(deck) THEN "InvalidDeck"
    ELSE IF Triangle(numRows) + numDraws > Len(deck) THEN "InsufficientCards"
    ELSE IF numRows < 1 \/ numDraws < 0 THEN "InvalidLayout"
    ELSE OK

C17_StartPreconditions ==
    /\ \A call \in StartInputs :
          startGameChecks(call[1], call[3], call[4])
              = StartOutcome(call[1], call[3], call[4])
    /\ last.op = "startGame" =>
          last.result \in {OK, "InvalidDeck", "InsufficientCards", "InvalidLayout"}

\* What the code keeps of C17: for the decks isValidDeck answers as the
\* specification does, start succeeds and fails as stated.
StartPreconditionsOnJudgedDecks ==
    \A call \in StartInputs :
        call[1] \notin {DeckWithNull, DeckWithoutKing} =>
            startGameChecks(call[1], call[3], call[4])
                = StartOutcome(call[1], call[3], call[4])

----------------------------------------------------------------------------
(* C18: start accepts a deck only if it is exactly the 52 cards formed by  *)
(* the 4 suits and the ranks 1 .. 13, each combination present exactly     *)
(* once; a deck that is null, of another size, contains a duplicate card,  *)
(* contains a null entry or lacks some combination makes start fail with   *)
(* InvalidDeck and leaves the engine state unchanged.                      *)

C18_OnlyStandardDeckAccepted ==
    /\ \A call \in StartInputs :
          ~IsStandardDeck(call[1]) =>
              startGameChecks(call[1], call[3], call[4]) = "InvalidDeck"
    /\ last.op = "startGame" /\ last.result = OK => IsStandardDeck(last.args[1])
    /\ last.op = "startGame" /\ last.result /= OK => State = pre

----------------------------------------------------------------------------
(* C19: in every state reachable after a successful start(deck, shuffle,   *)
(* R, D) the pyramid has exactly R rows and row r has exactly r + 1 slots; *)
(* removals only turn slots empty and never change the shape, so           *)
(* getNumRows returns R and getRowWidth(r) returns r + 1 for every r in    *)
(* [0, R) after any sequence of operations.                                *)

RowsIn(f) == Len(f.pyramid)

C19_PyramidShape ==
    /\ last.op = "startGame" /\ last.result = OK => RowsIn(State) = last.args[3]
    /\ StartedIn(pre) /\ SameGame =>
          /\ RowsIn(State) = RowsIn(pre)
          /\ \A pos \in SlotsIn(pre) :
                SlotIn(State, pos[1], pos[2]) \in {SlotIn(pre, pos[1], pos[2]), Null}
    /\ StartedIn(State) =>
          /\ RowsIn(State) >= 1
          /\ getNumRows = RowsIn(State)
          /\ \A r \in 0..(RowsIn(State) - 1) :
                /\ Len(pyramid[r + 1]) = r + 1
                /\ getRowWidth(r) = Returned(r + 1)

\* The whole last row of a pyramid of two rows has been removed: the row
\* still has its two slots.
C19_Witness ==
    /\ StartedIn(State)
    /\ last.op = "removeTwo"
    /\ last.result = OK
    /\ getNumRows = 2
    /\ pyramid[2] = <<Null, Null>>
    /\ getRowWidth(1) = Returned(2)

----------------------------------------------------------------------------
(* C20: in every state reachable after a successful start with             *)
(* numDraws = D the draw pile has exactly D slots: discards and            *)
(* draw-assisted removals replace or empty a slot but never add or remove  *)
(* one, so getNumDraw returns D and getDrawCards returns a sequence of     *)
(* length D, with empty entries for emptied slots, after any sequence of   *)
(* operations.                                                             *)

C20_DrawPileLength ==
    /\ last.op = "startGame" /\ last.result = OK => Len(draws) = last.args[4]
    /\ StartedIn(pre) /\ SameGame => Len(draws) = Len(pre.draws)
    /\ StartedIn(State) =>
          /\ getNumDraw = Len(draws)
          /\ getDrawCards.kind = OK
          /\ Len(getDrawCards.value) = Len(draws)
          /\ \A d \in 1..Len(draws) : getDrawCards.value[d] = draws[d]

\* A draw slot has been emptied for want of stock, and the draw pile is as
\* long as before with an empty entry in it.
C20_Witness ==
    /\ last.op \in {"discardDraw", "removeUsingDraw"}
    /\ last.result = OK
    /\ Len(pre.stock) = 0
    /\ getNumDraw = Len(pre.draws)
    /\ getDrawCards.value[last.args[1] + 1] = Null
    /\ \E d \in 1..Len(draws) : getDrawCards.value[d] /= Null

----------------------------------------------------------------------------
(* C21: in every state reachable after a successful start no card          *)
(* (suit, rank) appears more than once among the non-empty pyramid slots,  *)
(* the non-empty draw slots and the stock taken together.                  *)

CardsIn(f) ==
    {SlotIn(f, pos[1], pos[2]) : pos \in HeldSlotsIn(f)}
        \cup {f.draws[d] : d \in HeldDrawsIn(f)}
        \cup {f.stock[i] : i \in 1..Len(f.stock)}

\* As many different cards as places that hold a card.
C21_NoCardTwice ==
    StartedIn(State) => Cardinality(CardsIn(State)) = CardTotalIn(State)

\* A draw slot has been refilled from the stock after a pyramid card was
\* removed, and cards remain in all three places.
C21_Witness ==
    /\ last.op = "discardDraw"
    /\ last.result = OK
    /\ Len(pre.stock) > 0
    /\ Len(stock) > 0
    /\ HeldSlotsIn(State) /= {}
    /\ HeldSlotsIn(State) /= SlotsIn(State)
    /\ Cardinality(CardsIn(State)) = CardTotalIn(State)

----------------------------------------------------------------------------
(* C22: at every point after a successful start the stock is a suffix of   *)
(* the stock as it was dealt: only a successful discardDraw or             *)
(* removeUsingDraw with a non-empty stock changes it, by removing exactly  *)
(* its front card; remove, removeTwo and all failed calls leave it         *)
(* unchanged, and it is never reordered or extended.                       *)

IsSuffix(s, t) ==
    Len(s) <= Len(t) /\ s = SubSeq(t, Len(t) - Len(s) + 1, Len(t))

\* The orders in which a deck is dealt: those of the decks startGame takes
\* unshuffled, which are also the orders shuffle leaves.
DealtOrders == ValidDecks \cup {DeckWithoutKing}

StockDrawn ==
    /\ last.op \in {"discardDraw", "removeUsingDraw"}
    /\ last.result = OK
    /\ Len(pre.stock) > 0

C22_StockIsSuffix ==
    /\ StartedIn(State) => \E deck \in DealtOrders : IsSuffix(stock, deck)
    /\ last.op = "startGame" /\ last.result = OK /\ last.args[2] = FALSE =>
          /\ IsSuffix(stock, last.args[1])
          /\ Len(stock) = Len(last.args[1]) - Triangle(last.args[3]) - last.args[4]
    /\ StartedIn(pre) /\ SameGame =>
          /\ IsSuffix(stock, pre.stock)
          /\ stock = IF StockDrawn THEN Tail(pre.stock) ELSE pre.stock

\* The stock has given its front card twice and the rest is still there.
C22_Witness ==
    /\ StockDrawn
    /\ SlotTotalIn(State) = DeckSize - 2
    /\ Len(stock) > 1
    /\ stock = Tail(pre.stock)

----------------------------------------------------------------------------
(* C23: remove, removeTwo, removeUsingDraw and discardDraw called on an    *)
(* engine on which start has never succeeded fail with NotStarted and      *)
(* leave the engine in the NOT-STARTED state.                              *)

MutatingOps == {"remove", "removeTwo", "removeUsingDraw", "discardDraw"}

C23_NotStartedRefusesMoves ==
    /\ gamestate = NOT_STARTED =>
          /\ \A pos \in PositionInputs :
                /\ removeChecks(pos[1], pos[2]) = "NotStarted"
                /\ \A other \in PositionInputs :
                      removeTwoOutcome(pos[1], pos[2], other[1], other[2])
                          = "NotStarted"
                /\ \A d \in DrawInputs :
                      removeUsingDrawChecks(d, pos[1], pos[2]) = "NotStarted"
          /\ \A d \in DrawInputs : discardDrawChecks(d) = "NotStarted"
    /\ last.op \in MutatingOps /\ pre.gamestate = NOT_STARTED =>
          /\ last.result = "NotStarted"
          /\ State = pre
          /\ gamestate = NOT_STARTED
    /\ last.result = "NotStarted" => pre.gamestate = NOT_STARTED /\ State = NewFields

\* removeTwo has been refused on an engine that was never started.
C23_Witness ==
    /\ last.op = "removeTwo"
    /\ last.result = "NotStarted"
    /\ gamestate = NOT_STARTED
    /\ pyramid = <<>>

----------------------------------------------------------------------------
(* C24: before a successful start every query -- getScore, isGameOver,     *)
(* getCardAt, getDrawCards, getRowWidth, getNumRows and getNumDraw --      *)
(* fails with NotStarted instead of returning a value.                     *)

\* getNumRows and getNumDraw have no throw statement: what a caller gets from
\* them is always a returned number.
NumRowsOutcome == Returned(getNumRows)
NumDrawOutcome == Returned(getNumDraw)

\* The five queries that begin with checkStarted fail with NotStarted.
CheckedQueriesFail ==
    /\ getScore = Thrown("NotStarted")
    /\ isGameOver = Thrown("NotStarted")
    /\ getDrawCards = Thrown("NotStarted")
    /\ \A pos \in PositionInputs :
          /\ getCardAt(pos[1], pos[2]) = Thrown("NotStarted")
          /\ getRowWidth(pos[1]) = Thrown("NotStarted")

\* C24 as stated: all seven queries fail with NotStarted before a start.
C24_EveryQueryFails ==
    gamestate = NOT_STARTED =>
        /\ CheckedQueriesFail
        /\ NumRowsOutcome = Thrown("NotStarted")
        /\ NumDrawOutcome = Thrown("NotStarted")

\* C24 as the code has it: before a successful start getScore, isGameOver,
\* getCardAt, getDrawCards and getRowWidth fail with NotStarted, while
\* getNumRows and getNumDraw return the number -1; once the game has started
\* none of the seven fails with NotStarted.
C24_QueriesBeforeStart ==
    /\ gamestate = NOT_STARTED =>
          /\ CheckedQueriesFail
          /\ NumRowsOutcome = Returned(-1)
          /\ NumDrawOutcome = Returned(-1)
    /\ gamestate = STARTED =>
          /\ getScore.kind = OK
          /\ isGameOver.kind = OK
          /\ getDrawCards.kind = OK
          /\ \A pos \in PositionInputs :
                /\ getCardAt(pos[1], pos[2]).kind \in {OK, "OutOfBounds"}
                /\ getRowWidth(pos[1]).kind \in {OK, "OutOfBounds"}
          /\ NumRowsOutcome.value >= 0
          /\ NumDrawOutcome.value >= 0

\* A start has just been refused on an engine that was never started, and the
\* queries are asked of it.
C24_Witness ==
    /\ gamestate = NOT_STARTED
    /\ last.op = "startGame"
    /\ last.result = "InvalidLayout"
    /\ getScore = Thrown("NotStarted")
    /\ NumRowsOutcome = Returned(-1)

----------------------------------------------------------------------------
(* C25: getNumRows and getNumDraw return -1 while the game has not been    *)
(* started, and after a successful start return the number of rows and     *)
(* the number of draw slots given to start.                                *)

C25_NumRowsAndNumDraw ==
    /\ gamestate = NOT_STARTED => getNumRows = -1 /\ getNumDraw = -1
    /\ last.op = "startGame" /\ last.result = OK =>
          /\ getNumRows = last.args[3]
          /\ getNumDraw = last.args[4]
    /\ StartedIn(pre) /\ SameGame =>
          /\ getNumRows = Len(pre.pyramid)
          /\ getNumDraw = Len(pre.draws)

\* A game started with two rows and every other card of the deck in the draw
\* pile has since emptied a draw slot: the two numbers are still those given
\* to startGame.
C25_Witness ==
    /\ StartedIn(State)
    /\ SameGame
    /\ EmptyDrawsIn(State) /= {}
    /\ getNumRows = 2
    /\ getNumDraw = DeckSize - pyramidCards(2)

----------------------------------------------------------------------------
(* C26: the lifecycle state only ever moves from NOT-STARTED to STARTED: a *)
(* failed start on a fresh engine leaves it NOT-STARTED, and once a start  *)
(* has succeeded the engine is STARTED in every later state, whatever      *)
(* calls follow.                                                           *)

C26_LifecycleOnlyForward ==
    /\ gamestate \in {NOT_STARTED, STARTED}
    /\ pre.gamestate = STARTED => gamestate = STARTED
    /\ last.op = "startGame" /\ last.result = OK => gamestate = STARTED
    /\ last.op = "startGame" /\ last.result /= OK /\ pre.gamestate = NOT_STARTED =>
          gamestate = NOT_STARTED
    /\ gamestate = STARTED /\ pre.gamestate = NOT_STARTED =>
          last.op = "startGame" /\ last.result = OK

\* A started engine has refused a further start and is still STARTED.
C26_Witness ==
    /\ last.op = "startGame"
    /\ last.result \in {"InvalidDeck", "InvalidLayout", "InsufficientCards"}
    /\ pre.gamestate = STARTED
    /\ gamestate = STARTED

----------------------------------------------------------------------------
(* C27: start may be called again on a started engine: with valid          *)
(* arguments and shuffle = false it discards the current game and leaves   *)
(* exactly the state a fresh engine would reach with the same call,        *)
(* whatever was played before.                                             *)

\* The fields of a fresh engine after startGame(deck, false, R, D).
FreshStart(deck, R, D) ==
    [gamestate |-> STARTED,
     pyramid |-> [r \in 1..R |-> [c \in 1..r |-> deck[Triangle(r - 1) + c]]],
     draws |-> [i \in 1..D |-> deck[Triangle(R) + i]],
     stock |-> [k \in 1..(Len(deck) - Triangle(R) - D) |->
                   deck[Triangle(R) + D + k]]]

Restarted ==
    last.op = "startGame" /\ last.result = OK /\ pre.gamestate = STARTED

C27_RestartIsFreshStart ==
    /\ Restarted /\ last.args[2] = FALSE =>
          State = FreshStart(last.args[1], last.args[3], last.args[4])
    /\ Restarted =>
          /\ SlotTotalIn(State) = DeckSize
          /\ HeldSlotsIn(State) = SlotsIn(State)
          /\ EmptyDrawsIn(State) = {}

\* A started engine has been started again, unshuffled, with a reordered
\* deck in two rows and two draw slots.
C27_Witness ==
    /\ Restarted
    /\ last.args[2] = FALSE
    /\ last.args[1] = DeckPairs
    /\ last.args[3] = 2
    /\ last.args[4] = 2
    /\ State = FreshStart(DeckPairs, 2, 2)

----------------------------------------------------------------------------
(* C29: getDeck returns exactly 52 cards, pairwise distinct under Card     *)
(* equality, covering every combination of the four suits with the ranks   *)
(* 1 .. 13, and start accepts that deck for any layout with numRows >= 1,  *)
(* numDraws >= 0 and numRows * (numRows + 1) / 2 + numDraws <= 52.         *)

\* The 4 x 13 combinations of suit and rank.
Combinations ==
    {[suit |-> suit, value |-> rank] :
        suit \in {HEART, SPADE, CLUB, DIAMOND}, rank \in 1..13}

\* Every layout of at least one row and no fewer than zero draws that 52
\* cards can fill; ten rows already take 55 cards.
FittingLayouts ==
    {layout \in (1..10) \X (0..52) : Triangle(layout[1]) + layout[2] <= 52}

----------------------------------------------------------------------------
(* C30: removeTwo evaluates coverage of both positions in the state before *)
(* either card is removed: when one of the two cards lies directly beneath *)
(* the other, the call fails with Covered and changes nothing, even if the *)
(* two ranks sum to 13 and the lower card is the only card still covering  *)
(* the upper one.                                                          *)

\* lower lies directly beneath upper.
Beneath(lower, upper) ==
    lower[1] = upper[1] + 1 /\ lower[2] \in {upper[2], upper[2] + 1}

\* Pairs of cards of the pyramid of which one lies directly beneath the other.
StackedPairsIn(f) ==
    {pair \in HeldSlotsIn(f) \X HeldSlotsIn(f) :
        Beneath(pair[1], pair[2]) \/ Beneath(pair[2], pair[1])}

PairSumsIn(f, pair) ==
    Rank(SlotIn(f, pair[1][1], pair[1][2]))
        + Rank(SlotIn(f, pair[2][1], pair[2][2])) = 13

\* The slots directly beneath pos that hold a card.
CoversIn(f, pos) == {low \in HeldSlotsIn(f) : Beneath(low, pos)}

RemoveTwoFailuresChangeNothing ==
    last.op = "removeTwo" /\ last.result /= OK => State = pre

\* C30 as stated: every such pair is refused with Covered.
C30_StackedPairRefusedAsCovered ==
    /\ StartedIn(State) =>
          \A pair \in StackedPairsIn(State) :
              removeTwoOutcome(pair[1][1], pair[1][2], pair[2][1], pair[2][2])
                  = "Covered"
    /\ RemoveTwoFailuresChangeNothing

\* C30 as the code has it: removeTwo evaluates coverage of both positions in
\* the state before either card is removed, after it has compared the ranks.
\* A pair of which one card lies directly beneath the other is refused and
\* nothing changes: with Covered when the two ranks sum to 13, even if the
\* lower card is the only card still covering the upper one, and with
\* InvalidMove when they do not.
C30_StackedPairRefused ==
    /\ StartedIn(State) =>
          \A pair \in StackedPairsIn(State) :
              removeTwoOutcome(pair[1][1], pair[1][2], pair[2][1], pair[2][2])
                  = IF PairSumsIn(State, pair) THEN "Covered" ELSE "InvalidMove"
    /\ RemoveTwoFailuresChangeNothing
    /\ last.op = "removeTwo" /\ last.result = OK =>
          /\ ~Beneath(<<last.args[1], last.args[2]>>, <<last.args[3], last.args[4]>>)
          /\ ~Beneath(<<last.args[3], last.args[4]>>, <<last.args[1], last.args[2]>>)

\* removeTwo has just been refused with Covered in a pyramid where a card is
\* covered only by the card beneath it with which it sums to 13, asked in
\* either order.
C30_Witness ==
    /\ last.op = "removeTwo"
    /\ last.result = "Covered"
    /\ State = pre
    /\ \E pair \in StackedPairsIn(State) :
          /\ Beneath(pair[1], pair[2])
          /\ PairSumsIn(State, pair)
          /\ CoversIn(State, pair[2]) = {pair[1]}
          /\ UncoveredIn(State, pair[1][1], pair[1][2])
          /\ removeTwoOutcome(pair[1][1], pair[1][2], pair[2][1], pair[2][2])
                 = "Covered"
          /\ removeTwoOutcome(pair[2][1], pair[2][2], pair[1][1], pair[1][2])
                 = "Covered"

----------------------------------------------------------------------------
(* C28: start, with or without shuffle, and every later removal or discard *)
(* leave the caller's deck sequence unchanged (same cards in the same      *)
(* order), and changing a snapshot returned by getDrawCards or getPyramid  *)
(* does not change the engine's draw pile or pyramid.                      *)

CallerAssignments ==
    {"assignDrawCard", "assignPyramidCard", "assignPyramidRow"}

----------------------------------------------------------------------------
(* C31: whenever removeUsingDraw passes its own validation, the discard    *)
(* step it then performs cannot fail, so a removeUsingDraw call either     *)
(* changes nothing or both clears the pyramid slot and discards the draw   *)
(* card; no reachable state has the pyramid card removed while the paired  *)
(* draw card is still in its slot.                                         *)

C31_RemoveUsingDrawIsAllOrNothing ==
    /\ \A d \in DrawInputs, pos \in PositionInputs :
          removeUsingDrawChecks(d, pos[1], pos[2]) = OK =>
              discardDrawChecks(d) = OK
    /\ last.op = "removeUsingDraw" =>
          \/ last.result /= OK /\ State = pre
          \/ /\ last.result = OK
             /\ HoldsIn(pre, last.args[2], last.args[3])
             /\ ~HoldsIn(State, last.args[2], last.args[3])
             /\ pre.draws[last.args[1] + 1] /= Null
             /\ draws[last.args[1] + 1] /= pre.draws[last.args[1] + 1]
             /\ pre.draws[last.args[1] + 1] \notin CardsIn(State)

\* removeUsingDraw has cleared a pyramid slot and, the stock being empty,
\* left the slot of the draw card empty.
C31_Witness ==
    /\ last.op = "removeUsingDraw"
    /\ last.result = OK
    /\ Len(pre.stock) = 0
    /\ HoldsIn(pre, last.args[2], last.args[3])
    /\ ~HoldsIn(State, last.args[2], last.args[3])
    /\ pre.draws[last.args[1] + 1] /= Null
    /\ draws[last.args[1] + 1] = Null

----------------------------------------------------------------------------
(* C32: in every state reachable after a successful start, if some draw    *)
(* slot is empty then the stock is empty: a draw slot is only ever emptied *)
(* when there is no stock card left to replenish it.                       *)

C32_EmptyDrawMeansEmptyStock ==
    /\ StartedIn(State) /\ EmptyDrawsIn(State) /= {} => stock = <<>>
    /\ last.op = "startGame" /\ last.result = OK => EmptyDrawsIn(State) = {}
    /\ StartedIn(pre) /\ SameGame /\ EmptyDrawsIn(State) /= EmptyDrawsIn(pre) =>
          /\ last.op \in {"discardDraw", "removeUsingDraw"}
          /\ last.result = OK
          /\ pre.stock = <<>>
          /\ EmptyDrawsIn(State) = EmptyDrawsIn(pre) \cup {last.args[1]}

\* Two draw slots have been emptied by discards on an empty stock.
C32_Witness ==
    /\ StartedIn(State)
    /\ last.op = "discardDraw"
    /\ last.result = OK
    /\ Cardinality(EmptyDrawsIn(State)) = 2
    /\ Cardinality(EmptyDrawsIn(pre)) = 1
    /\ stock = <<>>

----------------------------------------------------------------------------
(* C33: in every state reachable after a successful start, the empty       *)
(* pyramid slots are closed downwards: if slot (r, c) with r < R - 1 is    *)
(* empty, then both slots directly beneath it, (r + 1, c) and              *)
(* (r + 1, c + 1), are empty; equivalently, a card is never removed while  *)
(* a card beneath it remains.                                              *)

EmptySlotsIn(f) == SlotsIn(f) \ HeldSlotsIn(f)

ClosedDownwardsIn(f) ==
    \A pos \in EmptySlotsIn(f) :
        pos[1] < Len(f.pyramid) - 1 =>
            /\ ~HoldsIn(f, pos[1] + 1, pos[2])
            /\ ~HoldsIn(f, pos[1] + 1, pos[2] + 1)

C33_EmptySlotsClosedDownwards ==
    /\ StartedIn(State) => ClosedDownwardsIn(State)
    /\ StartedIn(pre) /\ SameGame =>
          \A pos \in EmptySlotsIn(State) \ EmptySlotsIn(pre) :
              CoversIn(pre, pos) = {}

\* The top card of a pyramid of several rows has been removed after the
\* cards beneath it.
C33_Witness ==
    /\ last.op = "remove"
    /\ last.result = OK
    /\ Len(pyramid) >= 2
    /\ last.args[1] < Len(pyramid) - 1
    /\ ~HoldsIn(State, last.args[1], last.args[2])
    /\ ~HoldsIn(State, last.args[1] + 1, last.args[2])
    /\ ~HoldsIn(State, last.args[1] + 1, last.args[2] + 1)

----------------------------------------------------------------------------
(* C34: after a successful start, every successful remove, removeTwo,      *)
(* removeUsingDraw or discardDraw strictly decreases the total number of   *)
(* cards held in the pyramid, the draw pile and the stock, so at most      *)
(* |deck| mutating calls can succeed in one game and every play reaches a  *)
(* state in which no mutating call can succeed.                            *)

\* Some remove, removeTwo, removeUsingDraw or discardDraw can succeed, over
\* every position of the pyramid and every draw slot.
SomeMoveSucceeds ==
    \/ \E pos \in SlotsIn(State) : removeChecks(pos[1], pos[2]) = OK
    \/ \E pos1 \in SlotsIn(State), pos2 \in SlotsIn(State) :
          removeTwoOutcome(pos1[1], pos1[2], pos2[1], pos2[2]) = OK
    \/ \E d \in DrawSlots, pos \in SlotsIn(State) :
          removeUsingDrawChecks(d, pos[1], pos[2]) = OK
    \/ \E d \in DrawSlots : discardDrawChecks(d) = OK

\* The play is over: the game has started and no call can succeed.
PlayedOut == StartedIn(State) /\ ~SomeMoveSucceeds

\* Every successful call takes at least one card out of the game, and the
\* calls that succeeded and the cards left never exceed the deck.
CardTotalDecreases ==
    /\ StartedIn(pre) /\ SameGame /\ last.result = OK =>
          CardTotalIn(State) < CardTotalIn(pre)
    /\ StartedIn(State) =>
          /\ CardTotalIn(State) >= 0
          /\ moves + CardTotalIn(State) <= DeckSize
          /\ moves <= DeckSize
    /\ StartedIn(State) /\ CardTotalIn(State) = 0 => ~SomeMoveSucceeds

C34_PlayEnds == []CardTotalDecreases /\ <>[]PlayedOut

\* A play of more calls than the stock had cards has come to its end: no
\* call can succeed any more.
C34_Witness ==
    /\ PlayedOut
    /\ last.result = OK
    /\ moves > DeckSize - 5
    /\ stock = <<>>
    /\ CardTotalIn(State) < CardTotalIn(pre)

----------------------------------------------------------------------------
(* C35: game over is stable: once isGameOver returns true in a started     *)
(* game, it returns true after every further sequence of remove,           *)
(* removeTwo, removeUsingDraw and discardDraw calls (only a new start can  *)
(* make it false again).                                                   *)

C35_GameOverIsStable ==
    [][isGameOver = Returned(TRUE)
           /\ last'.op \in MutatingOps
           => isGameOver' = Returned(TRUE)]_vars

\* The game was over before a discard that took a card from the stock, and
\* is over after it.
C35_Witness ==
    /\ last.op = "discardDraw"
    /\ last.result = OK
    /\ Len(pre.stock) > 0
    /\ stock = Tail(pre.stock)
    /\ isGameOver = Returned(TRUE)

----------------------------------------------------------------------------
(* C36: removeTwo called with the same position twice (r1 = r2 and         *)
(* c1 = c2) never succeeds, because twice a rank never equals 13; hence    *)
(* every successful removeTwo empties exactly two distinct pyramid slots   *)
(* and lowers the count of non-empty pyramid slots by exactly 2.           *)

C36_RemoveTwoTakesTwoSlots ==
    /\ \A pos \in PositionInputs :
          /\ removeTwoOutcome(pos[1], pos[2], pos[1], pos[2]) /= OK
          /\ StartedIn(State) /\ pos \in HeldSlotsIn(State) =>
                /\ 2 * Rank(SlotIn(State, pos[1], pos[2])) /= 13
                /\ removeTwoOutcome(pos[1], pos[2], pos[1], pos[2])
                       = "InvalidMove"
    /\ last.op = "removeTwo" /\ last.result = OK =>
          /\ <<last.args[1], last.args[2]>> /= <<last.args[3], last.args[4]>>
          /\ EmptySlotsIn(State) \ EmptySlotsIn(pre) =
                 {<<last.args[1], last.args[2]>>, <<last.args[3], last.args[4]>>}
          /\ Cardinality(EmptySlotsIn(State) \ EmptySlotsIn(pre)) = 2
          /\ Cardinality(HeldSlotsIn(State)) = Cardinality(HeldSlotsIn(pre)) - 2

\* removeTwo has emptied two slots, and the uncovered card that is left is
\* refused when it is named twice.
C36_Witness ==
    /\ last.op = "removeTwo"
    /\ last.result = OK
    /\ Cardinality(HeldSlotsIn(State)) = Cardinality(HeldSlotsIn(pre)) - 2
    /\ \E pos \in UncoveredHeldIn(State) :
          removeTwoOutcome(pos[1], pos[2], pos[1], pos[2]) = "InvalidMove"

----------------------------------------------------------------------------
(* C37: for every selection the view can pass (no position, one or two,    *)
(* at most one of them a draw card) and every reachable state of the game, *)
(* also with the stock exhausted and a draw slot emptied, the Remove       *)
(* Selected handler ends without an uncaught Error: a failing call of the  *)
(* engine is caught and the cards are deselected, the displayed score is   *)
(* the model's, and the counters selected and drawsSelected are 0.         *)

SelectedIn(v) == {index \in DOMAIN v.cards : v.cards[index].selected}

C37_RemoveSelectedCompletes ==
    view.handler = "removeSelected" =>
        /\ view.thrown = OK
        /\ view.caught /= OK => SelectedIn(view) = {}
        /\ getScore.kind = OK
        /\ view.score = getScore.value
        /\ view.selected = 0
        /\ view.drawsSelected = 0

----------------------------------------------------------------------------
(* C38: after every Remove Selected the view agrees with the model: a      *)
(* pyramid view card is visible exactly when the model's slot at its       *)
(* position holds a card, every draw view card carries the label of the    *)
(* card in the model's draw slot of its index, and after a removeUsingDraw *)
(* that succeeded the removed pyramid card is invisible.                   *)

PyramidCardsIn(v) == {index \in DOMAIN v.cards : ~v.cards[index].isDrawCard}

DrawCardsIn(v) == {index \in DOMAIN v.cards : v.cards[index].isDrawCard}

VisibleAt(v, row, card) ==
    \E index \in PyramidCardsIn(v) :
        v.cards[index].pyramidPos = Pos2D(row, card) /\ v.cards[index].visible

C38_ViewAgreesWithModel ==
    view.handler = "removeSelected" =>
        /\ \A index \in PyramidCardsIn(view) :
              view.cards[index].visible
                  <=> HoldsIn(State, view.cards[index].pyramidPos.x,
                              view.cards[index].pyramidPos.y)
        /\ \A index \in DrawCardsIn(view) :
              /\ view.cards[index].pyramidPos.x \in 0..(Len(draws) - 1)
              /\ draws[view.cards[index].pyramidPos.x + 1] /= Null =>
                    view.cards[index].label
                        = toString(draws[view.cards[index].pyramidPos.x + 1])
        /\ view.call = "removeUsingDraw" /\ last.result = OK =>
              ~VisibleAt(view, last.args[2], last.args[3])

----------------------------------------------------------------------------
(* C39: the view shows the win message only when the model's pyramid is    *)
(* cleared: while a pyramid card remains, and so right after the deal, the *)
(* displayed score is the sum of the ranks of the remaining pyramid cards, *)
(* which is positive, and the canvas shows the score line.                 *)

C39_WinMessageOnlyWhenCleared ==
    /\ view.shown = "You Won! " => ClearedIn(State)
    /\ view.shown /= "" /\ ~view.failed /\ HeldSlotsIn(State) /= {} =>
          /\ view.score = SumOfRanks(State, HeldSlotsIn(State))
          /\ view.score > 0
          /\ view.shown = "Score: " \o ToString(view.score)

----------------------------------------------------------------------------
(* C40: in the view, after clicks on cards and Remove Selected actions     *)
(* that completed, at most two cards are selected and at most one of them  *)
(* is a draw card, the counters selected and drawsSelected are the numbers *)
(* of view cards and of draw view cards flagged selected, and a pyramid    *)
(* card is selected only while it is visible and neither card directly     *)
(* beneath it is visible (no handler makes a card visible or selects a     *)
(* card other than by a click, so this is when it became selected).        *)

C40_SelectionIsConsistent ==
    ~view.failed =>
        /\ Cardinality(SelectedIn(view)) <= 2
        /\ Cardinality(SelectedIn(view) \cap DrawCardsIn(view)) <= 1
        /\ view.selected = Cardinality(SelectedIn(view))
        /\ view.drawsSelected
               = Cardinality(SelectedIn(view) \cap DrawCardsIn(view))
        /\ \A index \in SelectedIn(view) \cap PyramidCardsIn(view) :
              /\ view.cards[index].visible
              /\ ~VisibleAt(view, view.cards[index].pyramidPos.x + 1,
                            view.cards[index].pyramidPos.y)
              /\ ~VisibleAt(view, view.cards[index].pyramidPos.x + 1,
                            view.cards[index].pyramidPos.y + 1)

\* After a removal that made a card invisible, a click has selected a draw
\* card next to a pyramid card of the row above the removed card's.
C40_Witness ==
    /\ ~view.failed
    /\ view.handler = "mouseListener"
    /\ view.selected = 2
    /\ view.drawsSelected = 1
    /\ \E index \in SelectedIn(view) \cap PyramidCardsIn(view) :
          \E gone \in PyramidCardsIn(view) :
              /\ ~view.cards[gone].visible
              /\ view.cards[gone].pyramidPos.x
                     = view.cards[index].pyramidPos.x + 1

====
